---- MODULE Spec2Model ----
(***************************************************************************)
(* quadsyncd: the reconciliation engine (internal/sync) driven either by   *)
(* the oneshot `sync` command (cmd/quadsyncd) or by the webhook server's   *)
(* single-flight gate (internal/webhook).                                  *)
(*                                                                         *)
(* A file name is a sequence of tokens (<<"web", ".", "container">>), a    *)
(* path is a sequence of names.  File contents and hashes are atoms.       *)
(***************************************************************************)
EXTENDS Integers, Sequences, FiniteSets, TLC

\* ------------------------------------------------------------------ bounds
\* number of timer goroutines that call performSync after Start
MaxCallbacks == 3

\* ------------------------------------------------------------- path algebra
\* filepath.Join on clean paths: concatenation of the components
Join(a, b) == a \o b

IsPrefix(a, b) == Len(a) <= Len(b) /\ SubSeq(b, 1, Len(a)) = a

\* filepath.Rel for a target below the base directory
RelativePath(baseDir, target) == SubSeq(target, Len(baseDir) + 1, Len(target))

\* filepath.Base: the last component
Base(path) == path[Len(path)]

\* position of the last "." token of a name, 0 when there is none
LastDot(name) ==
    LET dots == {i \in 1..Len(name) : name[i] = "."}
    IN  IF dots = {} THEN 0 ELSE CHOOSE i \in dots : \A j \in dots : j <= i

\* filepath.Ext: the suffix of the last component starting at its final dot
Ext(path) ==
    LET name == Base(path)
    IN  IF LastDot(name) = 0 THEN <<>> ELSE SubSeq(name, LastDot(name), Len(name))

ValidExtensions ==
    { <<".", "container">>, <<".", "volume">>, <<".", "network">>, <<".", "kube">>,
      <<".", "image">>, <<".", "build">>, <<".", "pod">> }

IsQuadletFile(path) == Ext(path) \in ValidExtensions

\* the suffix table with an infix for pods as well
unitServiceSuffix_PodInfix(ext) ==
    CASE ext = <<".", "volume">>  -> <<"-volume">>
      [] ext = <<".", "network">> -> <<"-network">>
      [] ext = <<".", "image">>   -> <<"-image">>
      [] ext = <<".", "build">>   -> <<"-build">>
      [] ext = <<".", "pod">>     -> <<"-pod">>
      [] OTHER                    -> <<>>

unitServiceSuffix(ext) ==
    CASE ext = <<".", "volume">>  -> <<"-volume">>
      [] ext = <<".", "network">> -> <<"-network">>
      [] ext = <<".", "image">>   -> <<"-image">>
      [] ext = <<".", "build">>   -> <<"-build">>
      [] OTHER                    -> <<>>

\* strings.TrimSuffix(base, ext) + unitServiceSuffix[ext] + ".service"
UnitNameFromQuadlet(quadletPath) ==
    LET base == Base(quadletPath)
        ext  == Ext(quadletPath)
        nameWithoutExt == SubSeq(base, 1, Len(base) - Len(ext))
    IN  nameWithoutExt \o unitServiceSuffix(ext) \o <<".", "service">>

\* a name that starts with "."
IsHidden(name) == Len(name) > 0 /\ name[1] = "."

\* ------------------------------------------------------------ configuration
StateDir == << <<"state">> >>
QuadletDir == << <<"home">>, <<"systemd">> >>
Subdir == << <<"quadlets">> >>

RepoDir == Join(StateDir, << <<"repo">> >>)

QuadletSourceDir == IF Subdir = <<>> THEN RepoDir ELSE Join(RepoDir, Subdir)

RestartPolicies == {"none", "changed", "all-managed"}

\* ------------------------------------------------------------------- files
WebContainer == << <<"web", ".", "container">> >>
AppEnv == << <<"conf">>, <<"app", ".", "env">> >>

\* crypto/sha256 over the file bytes, hex encoded: one digest per content
fileHash(content) ==
    CASE content = "c1" -> "h1"
      [] content = "c2" -> "h2"
      [] content = "cx" -> "hx"

\* the remote's commits and the files of each under the source root
Commits == {"r0", "r1", "r2", "r3"}

CommitFiles(c) ==
    CASE c = "r0" -> <<>>
      [] c = "r1" -> << <<WebContainer, "c1">> >>
      [] c = "r2" -> << <<WebContainer, "c2">>, <<AppEnv, "c1">> >>
      [] c = "r3" -> << <<AppEnv, "c2">> >>

\* the working tree of a commit: absolute path -> content
CommitTree(c) ==
    LET fl == CommitFiles(c)
        paths == {Join(QuadletSourceDir, fl[i][1]) : i \in 1..Len(fl)}
    IN  [p \in paths |-> LET i == CHOOSE i \in 1..Len(fl) : Join(QuadletSourceDir, fl[i][1]) = p
                         IN  fl[i][2]]

\* ----------------------------------------------------------- map helpers
Put(f, k, v) == [x \in (DOMAIN f) \cup {k} |-> IF x = k THEN v ELSE f[x]]

Del(f, k) == [x \in (DOMAIN f) \ {k} |-> f[x]]

EmptyMap == [x \in {} |-> x]

\* every enumeration order of a set (Go map iteration order is unspecified)
Orders(S) == {s \in [1..Cardinality(S) -> S] : \A i, j \in 1..Cardinality(S) : s[i] = s[j] => i = j}

\* ------------------------------------------------------------ engine types
\* State and ManagedFile (internal/sync/state.go)
EmptyState == [Commit |-> "", ManagedFiles |-> EmptyMap]

EmptyPlan == [Add |-> <<>>, Update |-> <<>>, Delete |-> <<>>]

FileOp(src, dst, hash) == [SourcePath |-> src, DestPath |-> dst, Hash |-> hash]

\* json.MarshalIndent of a State: an object with one member per map key
Marshal(state) ==
    [commit |-> state.Commit,
     managed_files |-> {<<d, [source_path |-> state.ManagedFiles[d].SourcePath,
                              hash |-> state.ManagedFiles[d].Hash]>> : d \in DOMAIN state.ManagedFiles}]

\* json.Unmarshal into a State
Unmarshal(doc) ==
    [Commit |-> doc.commit,
     ManagedFiles |-> [d \in {m[1] : m \in doc.managed_files} |->
                          LET m == CHOOSE m \in doc.managed_files : m[1] = d
                          IN  [SourcePath |-> m[2].source_path, Hash |-> m[2].hash]]]

\* the content of <state_dir>/state.json
NoStateFile == [kind |-> "absent", doc |-> Marshal(EmptyState)]
CorruptStateFile == [kind |-> "corrupt", doc |-> Marshal(EmptyState)]
JsonStateFile(doc) == [kind |-> "json", doc |-> doc]

\* one step a pass made that is visible outside the engine
Ev(op, path, units) == [op |-> op, path |-> path, units |-> units]

\* no request has been watched
NoResponse ==
    [req |-> [Method |-> "", ContentType |-> "", BodyErr |-> FALSE, Body |-> <<>>,
              Signature |-> <<>>, Event |-> ""],
     status |-> 0, text |-> ""]

NoLast == [ok |-> FALSE, commit |-> "", saved |-> Marshal(EmptyState)]

\* no earlier invocation is remembered
NoPrior == [pc |-> "idle", failedAt |-> "", dryRun |-> FALSE, commit |-> "", plan |-> EmptyPlan]

IdlePass ==
    [pc |-> "idle", dryRun |-> FALSE, commit |-> "", prevState |-> EmptyState,
     plan |-> EmptyPlan, idx |-> 0, newState |-> EmptyState, failedAt |-> "",
     restartErr |-> FALSE,
     trace |-> <<>>, fs0 |-> EmptyMap, sf0 |-> NoStateFile, after |-> NoLast,
     prior |-> NoPrior]

Final == {"done", "failed"}

\* ---------------------------------------------------------------- variables
VARIABLES
    cfg,          \* config.Config: [Prune, Restart]
    repo,         \* the checkout under RepoDir: absolute path -> content
    fs,           \* files outside the state directory: absolute path -> content
    stateFile,    \* <state_dir>/state.json
    eng,          \* per goroutine: the Engine.Run call it is executing
    gpc,          \* per goroutine: its position in Server.performSync
    syncRunning,  \* Server.syncRunning
    syncPending,  \* Server.syncPending
    coalesced,    \* history: performSync calls that found the running pass
    burst,        \* history: the calls the running pass is the re-run for
    last,         \* history: how the most recently finished pass ended
    listener,     \* the socket of http.Server: "none", "bound" or "closed"
    dcallback,    \* debouncer.callback: 0 for nil, else the trigger call that set it
    dtimer,       \* debouncer.timer: "nil", or whether the timer is "running" or "expired"
    timers,       \* the running time.Timers: the ticks each has left
    nev,          \* history: the calls of debouncer.trigger so far
    mu,           \* debouncer.mu: 0 when unlocked, else the timer goroutine that holds it
    cb,           \* per timer goroutine: the cb its function has read, 0 for none
    ctx,          \* the root context of the process: "live" or "cancelled"
    response      \* history: the request a client watched and what was written to it

\* the webhook intake: the listener and the debouncer
hookVars == <<listener, dcallback, dtimer, timers, nev, mu, cb>>

vars == <<cfg, repo, fs, stateFile, eng, gpc, syncRunning, syncPending, coalesced, burst, last,
          hookVars, ctx, response>>

\* goroutine 0 is the main goroutine (runSync, or the caller of Server.Start)
Procs == 0..MaxCallbacks

Callbacks == 1..MaxCallbacks

\* ------------------------------------------------------------------ planner
\* a walk that skips hidden files and still descends into hidden directories
DiscoverAllFiles_LeafOnly(dir, tree) ==
    {p \in DOMAIN tree : IsPrefix(dir, p) /\ Len(p) > Len(dir) /\ ~IsHidden(Base(p))}

\* quadlet.DiscoverAllFiles: the non-hidden files below dir
DiscoverAllFiles(dir, tree) ==
    {p \in DOMAIN tree : IsPrefix(dir, p) /\ Len(p) > Len(dir)
                         /\ \A i \in (Len(dir) + 1)..Len(p) : ~IsHidden(p[i])}

\* buildPlan that puts every file directly in the destination directory
DestOf_Flat(srcPath) == Join(QuadletDir, <<Base(srcPath)>>)

DestOf(srcPath) == Join(QuadletDir, RelativePath(QuadletSourceDir, srcPath))

\* desiredFiles of buildPlan: destPath -> sourcePath
DesiredFiles(sourceFiles) ==
    [d \in {DestOf(s) : s \in sourceFiles} |-> CHOOSE s \in sourceFiles : DestOf(s) = d]

\* buildPlan that adds every discovered file without looking it up in the
\* previous manifest
AddOps_Every(prevState, desired, tree) ==
    {FileOp(desired[d], d, fileHash(tree[desired[d]])) : d \in DOMAIN desired}

AddOps(prevState, desired, tree) ==
    {FileOp(desired[d], d, fileHash(tree[desired[d]])) :
        d \in {x \in DOMAIN desired : x \notin DOMAIN prevState.ManagedFiles}}

\* buildPlan that updates every managed file without comparing hashes
UpdateOps_NoCompare(prevState, desired, tree) ==
    {FileOp(desired[d], d, fileHash(tree[desired[d]])) :
        d \in {x \in DOMAIN desired : x \in DOMAIN prevState.ManagedFiles}}

UpdateOps(prevState, desired, tree) ==
    {FileOp(desired[d], d, fileHash(tree[desired[d]])) :
        d \in {x \in DOMAIN desired : x \in DOMAIN prevState.ManagedFiles
                                      /\ prevState.ManagedFiles[x].Hash # fileHash(tree[desired[x]])}}

\* buildPlan that plans deletes whether or not prune is set
DeleteOps_IgnorePrune(prevState, desired, prune) ==
    {FileOp(<<>>, d, "") : d \in {x \in DOMAIN prevState.ManagedFiles : x \notin DOMAIN desired}}

DeleteOps(prevState, desired, prune) ==
    IF prune
    THEN {FileOp(<<>>, d, "") : d \in {x \in DOMAIN prevState.ManagedFiles : x \notin DOMAIN desired}}
    ELSE {}

\* Engine.buildPlan: the plans it can return (each list in any order)
buildPlan(prevState, tree, prune) ==
    LET desired == DesiredFiles(DiscoverAllFiles(QuadletSourceDir, tree))
    IN  {[Add |-> a, Update |-> u, Delete |-> d] :
            a \in Orders(AddOps(prevState, desired, tree)),
            u \in Orders(UpdateOps(prevState, desired, tree)),
            d \in Orders(DeleteOps(prevState, desired, prune))}

\* buildState that starts from an empty manifest
buildState_FromScratch(prevState, plan, commit) ==
    LET ups == plan.Add \o plan.Update
        upd == {ups[i].DestPath : i \in 1..Len(ups)}
    IN  [Commit |-> commit,
         ManagedFiles |->
            [d \in upd |->
                LET op == ups[CHOOSE i \in 1..Len(ups) : ups[i].DestPath = d]
                IN  [SourcePath |-> RelativePath(QuadletSourceDir, op.SourcePath),
                     Hash |-> op.Hash]]]

\* Engine.buildState
buildState(prevState, plan, commit) ==
    LET dels == {plan.Delete[i].DestPath : i \in 1..Len(plan.Delete)}
        ups  == plan.Add \o plan.Update
        upd  == {ups[i].DestPath : i \in 1..Len(ups)}
        keys == ((DOMAIN prevState.ManagedFiles) \ dels) \cup upd
    IN  [Commit |-> commit,
         ManagedFiles |->
            [d \in keys |->
                IF d \in upd
                THEN LET op == ups[CHOOSE i \in 1..Len(ups) :
                                     ups[i].DestPath = d
                                     /\ \A j \in 1..Len(ups) : ups[j].DestPath = d => j <= i]
                     IN  [SourcePath |-> RelativePath(QuadletSourceDir, op.SourcePath),
                          Hash |-> op.Hash]
                ELSE prevState.ManagedFiles[d]]]

\* quadletUnitsFromOps without the IsQuadletFile test
quadletUnitsFromOps_EveryFile(ops) ==
    {UnitNameFromQuadlet(ops[i].DestPath) : i \in 1..Len(ops)}

\* quadletUnitsFromOps
quadletUnitsFromOps(ops) ==
    {UnitNameFromQuadlet(ops[i].DestPath) : i \in {j \in 1..Len(ops) : IsQuadletFile(ops[j].DestPath)}}

affectedUnits(plan) == quadletUnitsFromOps(plan.Add \o plan.Update \o plan.Delete)

allManagedUnits(state) ==
    {UnitNameFromQuadlet(d) : d \in {x \in DOMAIN state.ManagedFiles : IsQuadletFile(x)}}

Tagged(kind, ops) == [i \in 1..Len(ops) |-> [kind |-> kind, op |-> ops[i]]]

\* applyPlan with the delete loop first
ApplyOrder_DeleteFirst(plan) ==
    Tagged("remove", plan.Delete) \o Tagged("copy", plan.Add) \o Tagged("copy", plan.Update)

\* the three loops of applyPlan: the ops in execution order, each with what
\* its loop does to the destination ("copy": copyFile, "remove": os.Remove)
ApplyOrder(plan) ==
    Tagged("copy", plan.Add) \o Tagged("copy", plan.Update) \o Tagged("remove", plan.Delete)

\* loadState that never finds a manifest
loadState_Forget(file) == [err |-> FALSE, state |-> EmptyState]

\* Engine.loadState: the manifest read from state.json, or an error
loadState(file) ==
    CASE file.kind = "absent"  -> [err |-> FALSE, state |-> EmptyState]
      [] file.kind = "corrupt" -> [err |-> TRUE, state |-> EmptyState]
      [] file.kind = "json"    -> [err |-> FALSE, state |-> Unmarshal(file.doc)]

\* handleRestarts whose all-managed branch restarts the units of the plan
RestartUnits_PlanOnly(policy, plan, state) ==
    CASE policy = "none"        -> {}
      [] policy = "changed"     -> affectedUnits(plan)
      [] policy = "all-managed" -> affectedUnits(plan)

\* the units handleRestarts passes to TryRestartUnits
RestartUnits(policy, plan, state) ==
    CASE policy = "none"        -> {}
      [] policy = "changed"     -> affectedUnits(plan)
      [] policy = "all-managed" -> allManagedUnits(state)

\* --------------------------------------------------------------------- Init
InitialFs == {EmptyMap, [d \in {Join(QuadletDir, WebContainer)} |-> "cx"]}

\* the configuration of the installation guide
ExampleCfg == [Prune |-> TRUE, Restart |-> "changed"]

\* NewServer: nothing listens, the debouncer has no timer and no callback
NoHook ==
    /\ listener = "none"
    /\ dcallback = 0
    /\ dtimer = "nil"
    /\ timers = {}
    /\ nev = 0
    /\ mu = 0
    /\ cb = [p \in 1..MaxCallbacks |-> 0]

\* before the first pass: no checkout, no manifest, no goroutine in performSync
Fresh ==
    /\ repo = EmptyMap
    /\ stateFile = NoStateFile
    /\ eng = [p \in Procs |-> IdlePass]
    /\ gpc = [p \in Procs |-> "idle"]
    /\ syncRunning = FALSE
    /\ syncPending = FALSE
    /\ coalesced = 0
    /\ burst = 0
    /\ last = NoLast
    /\ NoHook
    /\ ctx = "live"
    /\ response = NoResponse

\* the oneshot command under any configuration
Init ==
    /\ cfg \in [Prune : BOOLEAN, Restart : RestartPolicies]
    /\ fs \in InitialFs
    /\ Fresh

\* the webhook server under the installation guide's configuration
ServeInit ==
    /\ cfg = ExampleCfg
    /\ fs = EmptyMap
    /\ Fresh

\* ------------------------------------------------------------- Engine.Run
\* NewEngine followed by the entry of Run
NewPass(dry) ==
    [IdlePass EXCEPT !.pc = "mkdir", !.dryRun = dry, !.fs0 = fs, !.sf0 = stateFile, !.after = last]

Failed(e, step) == [e EXCEPT !.pc = "failed", !.failedAt = step]

Called(e, ev) == [e EXCEPT !.trace = Append(e.trace, ev)]

LastAfter(e) ==
    IF e.pc = "done" /\ ~e.dryRun
    THEN [ok |-> TRUE, commit |-> e.commit, saved |-> Marshal(e.newState)]
    ELSE IF e.pc \in Final THEN NoLast ELSE last

Step(p, e) ==
    /\ eng' = [eng EXCEPT ![p] = e]
    /\ last' = LastAfter(e)
    /\ UNCHANGED <<cfg, ctx, response, hookVars, gpc, syncRunning, syncPending, coalesced, burst>>

\* the context goroutine p gave to Run is not done: Start and runSync pass the
\* root context, the debounce callback passes context.Background()
Live(p) == p # 0 \/ ctx = "live"

\* os.MkdirAll(StateDir)
RunMkdirAll(p) ==
    /\ eng[p].pc = "mkdir"
    /\ \/ Step(p, [eng[p] EXCEPT !.pc = "fetch"])
       \/ Step(p, Failed(eng[p], "mkdir"))
    /\ UNCHANGED <<repo, fs, stateFile>>

\* git.EnsureCheckout: the checkout is put at the remote's commit; git is run
\* by exec.CommandContext and fails under a context that is done
RunEnsureCheckout(p) ==
    /\ eng[p].pc = "fetch"
    /\ LET e == Called(eng[p], Ev("fetch", <<>>, {}))
       IN  \/ \E c \in Commits :
                /\ Live(p)
                /\ repo' = CommitTree(c)
                /\ Step(p, [e EXCEPT !.pc = "load", !.commit = c])
           \/ /\ UNCHANGED repo
              /\ Step(p, Failed(e, "fetch"))
    /\ UNCHANGED <<fs, stateFile>>

\* Run that returns the error of loadState
RunLoadState_Fatal(p) ==
    /\ eng[p].pc = "load"
    /\ LET r == loadState(stateFile)
           e == Called(eng[p], Ev("load", <<>>, {}))
       IN  Step(p, IF r.err THEN Failed(e, "load")
                            ELSE [e EXCEPT !.pc = "plan", !.prevState = r.state])
    /\ UNCHANGED <<repo, fs, stateFile>>

\* loadState, a load error being replaced by the empty state
RunLoadState(p) ==
    /\ eng[p].pc = "load"
    /\ LET r == loadState(stateFile)
           e == Called(eng[p], Ev("load", <<>>, {}))
       IN  Step(p, [e EXCEPT !.pc = "plan",
                             !.prevState = IF r.err THEN EmptyState ELSE r.state])
    /\ UNCHANGED <<repo, fs, stateFile>>

\* Run without the dry-run return
AfterPlan_NoDryRun(dry) == "avail"

\* where Run goes once the plan is logged
AfterPlan(dry) == IF dry THEN "done" ELSE "avail"

\* Run that returns success as soon as the plan turns out to be empty
RunBuildPlan_SkipEmpty(p) ==
    /\ eng[p].pc = "plan"
    /\ LET e == Called(eng[p], Ev("plan", <<>>, {}))
       IN  \/ \E plan \in buildPlan(eng[p].prevState, repo, cfg.Prune) :
                Step(p, [e EXCEPT !.plan = plan,
                                  !.pc = IF plan = EmptyPlan
                                         THEN "done"
                                         ELSE AfterPlan(eng[p].dryRun)])
           \/ Step(p, Failed(e, "plan"))
    /\ UNCHANGED <<repo, fs, stateFile>>

\* buildPlan, then the dry-run return
RunBuildPlan(p) ==
    /\ eng[p].pc = "plan"
    /\ LET e == Called(eng[p], Ev("plan", <<>>, {}))
       IN  \/ \E plan \in buildPlan(eng[p].prevState, repo, cfg.Prune) :
                Step(p, [e EXCEPT !.plan = plan,
                                  !.pc = AfterPlan(eng[p].dryRun)])
           \/ Step(p, Failed(e, "plan"))
    /\ UNCHANGED <<repo, fs, stateFile>>

\* Run that only logs an unavailable service manager and goes on to apply
RunIsAvailable_LogOnly(p) ==
    /\ eng[p].pc = "avail"
    /\ LET e == Called(eng[p], Ev("avail", <<>>, {}))
       IN  \/ Step(p, [e EXCEPT !.pc = "applymk"])
           \/ Step(p, [e EXCEPT !.pc = "applymk", !.failedAt = "avail"])
    /\ UNCHANGED <<repo, fs, stateFile>>

\* systemd.IsAvailable: systemctl does not start under a context that is done
RunIsAvailable(p) ==
    /\ eng[p].pc = "avail"
    /\ LET e == Called(eng[p], Ev("avail", <<>>, {}))
       IN  \/ Live(p) /\ Step(p, [e EXCEPT !.pc = "applymk"])
           \/ Step(p, Failed(e, "avail"))
    /\ UNCHANGED <<repo, fs, stateFile>>

AfterOp(e) ==
    IF e.idx = Len(ApplyOrder(e.plan)) THEN [e EXCEPT !.pc = "validate"] ELSE e

\* applyPlan: os.MkdirAll(QuadletDir)
ApplyMkdirAll(p) ==
    /\ eng[p].pc = "applymk"
    /\ \/ Step(p, AfterOp([eng[p] EXCEPT !.pc = "apply"]))
       \/ Step(p, Failed(eng[p], "apply"))
    /\ UNCHANGED <<repo, fs, stateFile>>

\* copyFile: the source is copied to a temporary file that is renamed over dst
copyFile(files, tree, src, dst) == Put(files, dst, tree[src])

\* os.RemoveAll of the file's directory in place of os.Remove of the file
removeFile_Dir(files, dst) ==
    LET dir == SubSeq(dst, 1, Len(dst) - 1)
    IN  [x \in {y \in DOMAIN files : ~IsPrefix(dir, y)} |-> files[x]]

\* os.Remove, a missing file being no error
removeFile(files, dst) == Del(files, dst)

\* applyPlan: the next op of the add, update and delete loops
ApplyOp(p) ==
    /\ eng[p].pc = "apply"
    /\ eng[p].idx < Len(ApplyOrder(eng[p].plan))
    /\ LET e  == eng[p]
           op == ApplyOrder(e.plan)[e.idx + 1].op
           isCopy == ApplyOrder(e.plan)[e.idx + 1].kind = "copy"
       IN  \/ /\ isCopy
              /\ op.SourcePath \in DOMAIN repo
              /\ fs' = copyFile(fs, repo, op.SourcePath, op.DestPath)
              /\ Step(p, AfterOp(Called([e EXCEPT !.idx = e.idx + 1], Ev("write", op.DestPath, {}))))
           \/ /\ ~isCopy
              /\ fs' = removeFile(fs, op.DestPath)
              /\ Step(p, AfterOp(Called([e EXCEPT !.idx = e.idx + 1], Ev("delete", op.DestPath, {}))))
           \/ /\ UNCHANGED fs
              /\ Step(p, Failed(e, "apply"))
    /\ UNCHANGED <<repo, stateFile>>

\* Run that goes from validation straight to daemon-reload
RunValidateQuadlets_NoSave(p) ==
    /\ eng[p].pc = "validate"
    /\ LET e == Called(eng[p], Ev("validate", <<>>, {}))
       IN  \/ Step(p, [e EXCEPT !.pc = "reload"])
           \/ Step(p, Failed(e, "validate"))
    /\ UNCHANGED <<repo, fs, stateFile>>

\* Run that has written the manifest by the time validation reports
RunValidateQuadlets_SaveFirst(p) ==
    /\ eng[p].pc = "validate"
    /\ LET e == Called(eng[p], Ev("validate", <<>>, {}))
       IN  /\ stateFile' = JsonStateFile(Marshal(buildState(eng[p].prevState, eng[p].plan, eng[p].commit)))
           /\ \/ Step(p, [e EXCEPT !.pc = "save"])
              \/ Step(p, Failed(e, "validate"))
    /\ UNCHANGED <<repo, fs>>

\* systemd.ValidateQuadlets: nil without a look at the context on a host that
\* has no generator binary, else the outcome of the generator
RunValidateQuadlets(p) ==
    /\ eng[p].pc = "validate"
    /\ LET e == Called(eng[p], Ev("validate", <<>>, {}))
       IN  \/ Step(p, [e EXCEPT !.pc = "save"])
           \/ Step(p, Failed(e, "validate"))
    /\ UNCHANGED <<repo, fs, stateFile>>

\* what a failed os.WriteFile can leave in the file
FailedWrite(old, new) == {old, CorruptStateFile, new}

\* Run that only logs a failed saveState and goes on to daemon-reload
RunSaveState_LogOnly(p) ==
    /\ eng[p].pc = "save"
    /\ LET newState == buildState(eng[p].prevState, eng[p].plan, eng[p].commit)
           e == Called([eng[p] EXCEPT !.newState = newState], Ev("save", <<>>, {}))
       IN  \/ /\ stateFile' = JsonStateFile(Marshal(newState))
              /\ Step(p, [e EXCEPT !.pc = "reload"])
           \/ /\ stateFile' \in FailedWrite(stateFile, JsonStateFile(Marshal(newState)))
              /\ Step(p, [e EXCEPT !.pc = "reload", !.failedAt = "save"])
    /\ UNCHANGED <<repo, fs>>

\* buildState and saveState
RunSaveState(p) ==
    /\ eng[p].pc = "save"
    /\ LET newState == buildState(eng[p].prevState, eng[p].plan, eng[p].commit)
           e == Called([eng[p] EXCEPT !.newState = newState], Ev("save", <<>>, {}))
       IN  \/ /\ stateFile' = JsonStateFile(Marshal(newState))
              /\ Step(p, [e EXCEPT !.pc = "reload"])
           \/ /\ stateFile' \in FailedWrite(stateFile, JsonStateFile(Marshal(newState)))
              /\ Step(p, Failed(e, "save"))
    /\ UNCHANGED <<repo, fs>>

\* Run that only logs a failed DaemonReload and goes on to the restarts
RunDaemonReload_LogOnly(p) ==
    /\ eng[p].pc = "reload"
    /\ LET e == Called(eng[p], Ev("reload", <<>>, {}))
       IN  \/ Step(p, [e EXCEPT !.pc = "restart"])
           \/ Step(p, [e EXCEPT !.pc = "restart", !.failedAt = "reload"])
    /\ UNCHANGED <<repo, fs, stateFile>>

\* systemd.DaemonReload: systemctl does not start under a context that is done
RunDaemonReload(p) ==
    /\ eng[p].pc = "reload"
    /\ LET e == Called(eng[p], Ev("reload", <<>>, {}))
       IN  \/ Live(p) /\ Step(p, [e EXCEPT !.pc = "restart"])
           \/ Step(p, Failed(e, "reload"))
    /\ UNCHANGED <<repo, fs, stateFile>>

\* Run that returns the error of handleRestarts
RunHandleRestarts_Fatal(p) ==
    /\ eng[p].pc = "restart"
    /\ LET units == RestartUnits(cfg.Restart, eng[p].plan, eng[p].newState)
       IN  IF units = {}
           THEN Step(p, [eng[p] EXCEPT !.pc = "done"])
           ELSE LET e == Called(eng[p], Ev("restart", <<>>, units))
                IN  \/ Step(p, [e EXCEPT !.pc = "done"])
                    \/ Step(p, [Failed(e, "restart") EXCEPT !.restartErr = TRUE])
    /\ UNCHANGED <<repo, fs, stateFile>>

\* handleRestarts, whose error Run only logs
RunHandleRestarts(p) ==
    /\ eng[p].pc = "restart"
    /\ LET units == RestartUnits(cfg.Restart, eng[p].plan, eng[p].newState)
       IN  IF units = {}
           THEN Step(p, [eng[p] EXCEPT !.pc = "done"])
           ELSE \E err \in (IF Live(p) THEN BOOLEAN ELSE {TRUE}) :
                   Step(p, [Called(eng[p], Ev("restart", <<>>, units))
                               EXCEPT !.pc = "done", !.restartErr = err])
    /\ UNCHANGED <<repo, fs, stateFile>>

EngineStep(p) ==
    \/ RunMkdirAll(p)
    \/ RunEnsureCheckout(p)
    \/ RunLoadState(p)
    \/ RunBuildPlan(p)
    \/ RunIsAvailable(p)
    \/ ApplyMkdirAll(p)
    \/ ApplyOp(p)
    \/ RunValidateQuadlets(p)
    \/ RunSaveState(p)
    \/ RunDaemonReload(p)
    \/ RunHandleRestarts(p)

\* ------------------------------------------------------------------ drivers
\* runSync: one invocation of `quadsyncd sync [--dry-run]`, under the context
\* of setupSignalHandler
SyncCmd(dry) ==
    /\ eng[0].pc \in {"idle"} \cup Final
    /\ eng' = [eng EXCEPT ![0] = NewPass(dry)]
    /\ ctx' = "live"
    /\ UNCHANGED <<cfg, response, hookVars, repo, fs, stateFile, gpc, syncRunning, syncPending, coalesced, burst, last>>

\* how an invocation ended, for the one that follows it
Outcome(e) ==
    [pc |-> e.pc, failedAt |-> e.failedAt, dryRun |-> e.dryRun, commit |-> e.commit, plan |-> e.plan]

\* runSync once more, by an operator who has the log of the invocation before
SyncAgain(dry) ==
    /\ eng[0].pc \in {"idle"} \cup Final
    /\ eng' = [eng EXCEPT ![0] = [NewPass(dry) EXCEPT !.prior = Outcome(eng[0])]]
    /\ ctx' = "live"
    /\ UNCHANGED <<cfg, response, hookVars, repo, fs, stateFile, gpc, syncRunning, syncPending, coalesced, burst, last>>

\* Server.Start up to its call of performSync
Start ==
    /\ gpc[0] = "idle"
    /\ gpc' = [gpc EXCEPT ![0] = "enter"]
    /\ UNCHANGED <<cfg, ctx, response, hookVars, repo, fs, stateFile, eng, syncRunning, syncPending, coalesced, burst, last>>

\* Start that serves while its initial performSync is still under way
ListenAndServe_Early ==
    /\ gpc[0] # "idle"
    /\ listener = "none"
    /\ listener' = "bound"
    /\ UNCHANGED <<dcallback, dtimer, timers, nev, mu, cb>>
    /\ UNCHANGED <<cfg, ctx, response, repo, fs, stateFile, eng, gpc, syncRunning, syncPending, coalesced, burst, last>>

\* Server.Start after performSync has returned: the goroutine it starts
\* calls ListenAndServe
ListenAndServe ==
    /\ gpc[0] = "returned"
    /\ listener = "none"
    /\ listener' = "bound"
    /\ UNCHANGED <<dcallback, dtimer, timers, nev, mu, cb>>
    /\ UNCHANGED <<cfg, ctx, response, repo, fs, stateFile, eng, gpc, syncRunning, syncPending, coalesced, burst, last>>

\* SIGINT or SIGTERM: the signal goroutine cancels the root context
Cancel ==
    /\ ctx = "live"
    /\ eng[0].pc \notin ({"idle"} \cup Final) \/ gpc[0] # "idle"
    /\ ctx' = "cancelled"
    /\ UNCHANGED <<cfg, response, hookVars, repo, fs, stateFile, eng, gpc, syncRunning, syncPending, coalesced, burst, last>>

\* Server.Start once performSync has returned and the root context is done:
\* server.Shutdown closes the listener
Shutdown ==
    /\ gpc[0] = "returned"
    /\ ctx = "cancelled"
    /\ listener # "closed"
    /\ listener' = "closed"
    /\ UNCHANGED <<dcallback, dtimer, timers, nev, mu, cb>>
    /\ UNCHANGED <<cfg, ctx, response, repo, fs, stateFile, eng, gpc, syncRunning, syncPending, coalesced, burst, last>>

\* requests are served
Listening == listener = "bound"

\* the debounce timer's goroutine calls performSync
TimerFire(p) ==
    /\ Listening
    /\ gpc[p] = "idle"
    /\ \A q \in Callbacks : q < p => gpc[q] # "idle"
    /\ gpc' = [gpc EXCEPT ![p] = "enter"]
    /\ UNCHANGED <<cfg, ctx, response, hookVars, repo, fs, stateFile, eng, syncRunning, syncPending, coalesced, burst, last>>

\* performSync without the syncRunning test: every call runs a pass
PerformSyncEnter_NoGate(p) ==
    /\ gpc[p] = "enter"
    /\ syncRunning' = TRUE
    /\ gpc' = [gpc EXCEPT ![p] = "running"]
    /\ eng' = [eng EXCEPT ![p] = NewPass(FALSE)]
    /\ UNCHANGED <<syncPending, coalesced, burst>>
    /\ UNCHANGED <<cfg, ctx, response, hookVars, repo, fs, stateFile, last>>

\* performSync: the first critical section
PerformSyncEnter(p) ==
    /\ gpc[p] = "enter"
    /\ IF syncRunning
       THEN /\ syncPending' = TRUE
            /\ gpc' = [gpc EXCEPT ![p] = "returned"]
            /\ coalesced' = coalesced + 1
            /\ UNCHANGED <<syncRunning, eng, burst>>
       ELSE /\ syncRunning' = TRUE
            /\ gpc' = [gpc EXCEPT ![p] = "running"]
            /\ eng' = [eng EXCEPT ![p] = NewPass(FALSE)]
            /\ UNCHANGED <<syncPending, coalesced, burst>>
    /\ UNCHANGED <<cfg, ctx, response, hookVars, repo, fs, stateFile, last>>

\* performSync that services every coalesced call with a pass of its own:
\* syncPending is left set while calls remain
PerformSyncNext_PerCall(p) ==
    /\ gpc[p] = "running"
    /\ eng[p].pc \in Final
    /\ IF ~syncPending
       THEN /\ syncRunning' = FALSE
            /\ gpc' = [gpc EXCEPT ![p] = "returned"]
            /\ eng' = [eng EXCEPT ![p] = IdlePass]
            /\ coalesced' = 0
            /\ burst' = 0
            /\ UNCHANGED syncPending
       ELSE /\ syncPending' = (coalesced > 1)
            /\ eng' = [eng EXCEPT ![p] = NewPass(FALSE)]
            /\ coalesced' = coalesced - 1
            /\ burst' = 1
            /\ UNCHANGED <<syncRunning, gpc>>
    /\ UNCHANGED <<cfg, ctx, response, hookVars, repo, fs, stateFile, last>>

\* performSync that releases the running slot after every pass and leaves a
\* queued re-run to the next call
PerformSyncNext_Release(p) ==
    /\ gpc[p] = "running"
    /\ eng[p].pc \in Final
    /\ syncRunning' = FALSE
    /\ gpc' = [gpc EXCEPT ![p] = "returned"]
    /\ eng' = [eng EXCEPT ![p] = IdlePass]
    /\ coalesced' = 0
    /\ burst' = 0
    /\ UNCHANGED syncPending
    /\ UNCHANGED <<cfg, ctx, response, hookVars, repo, fs, stateFile, last>>

\* performSync that returns on a failed pass before it reaches the closing
\* critical section
PerformSyncNext_ReturnOnError(p) ==
    /\ gpc[p] = "running"
    /\ eng[p].pc \in Final
    /\ IF eng[p].pc = "failed"
       THEN /\ gpc' = [gpc EXCEPT ![p] = "returned"]
            /\ eng' = [eng EXCEPT ![p] = IdlePass]
            /\ UNCHANGED <<syncRunning, syncPending>>
       ELSE IF ~syncPending
       THEN /\ syncRunning' = FALSE
            /\ gpc' = [gpc EXCEPT ![p] = "returned"]
            /\ eng' = [eng EXCEPT ![p] = IdlePass]
            /\ UNCHANGED syncPending
       ELSE /\ syncPending' = FALSE
            /\ eng' = [eng EXCEPT ![p] = NewPass(FALSE)]
            /\ UNCHANGED <<syncRunning, gpc>>
    /\ coalesced' = 0
    /\ burst' = IF syncPending THEN coalesced ELSE 0
    /\ UNCHANGED <<cfg, ctx, response, hookVars, repo, fs, stateFile, last>>

\* performSync: the critical section after engine.Run has returned
PerformSyncNext(p) ==
    /\ gpc[p] = "running"
    /\ eng[p].pc \in Final
    /\ IF ~syncPending
       THEN /\ syncRunning' = FALSE
            /\ gpc' = [gpc EXCEPT ![p] = "returned"]
            /\ eng' = [eng EXCEPT ![p] = IdlePass]
            /\ UNCHANGED syncPending
       ELSE /\ syncPending' = FALSE
            /\ eng' = [eng EXCEPT ![p] = NewPass(FALSE)]
            /\ UNCHANGED <<syncRunning, gpc>>
    /\ coalesced' = 0
    /\ burst' = IF syncPending THEN coalesced ELSE 0
    /\ UNCHANGED <<cfg, ctx, response, hookVars, repo, fs, stateFile, last>>

\* repeated invocations of the oneshot command
Next ==
    \/ \E dry \in BOOLEAN : SyncCmd(dry)
    \/ EngineStep(0)

Spec == Init /\ [][Next]_vars

\* the oneshot command, each invocation knowing how the one before ended
RetryNext ==
    \/ \E dry \in BOOLEAN : SyncAgain(dry)
    \/ EngineStep(0)

RetrySpec == Init /\ [][RetryNext]_vars

\* the oneshot command under signals
CancelNext ==
    \/ \E dry \in BOOLEAN : SyncCmd(dry)
    \/ EngineStep(0)
    \/ Cancel

CancelSpec == Init /\ [][CancelNext]_vars

\* the webhook server
ServeNext ==
    \/ Start
    \/ ListenAndServe
    \/ \E p \in Callbacks : TimerFire(p)
    \/ \E p \in Procs : PerformSyncEnter(p)
    \/ \E p \in Procs : PerformSyncNext(p)
    \/ \E p \in Procs : EngineStep(p)

ServeSpec == ServeInit /\ [][ServeNext]_vars

\* ---------------------------------------------------------- webhook intake
\* the debounce delay of NewServer, in ticks of one second
Delay == 2

\* the content of the webhook secret file, and a secret a stranger guesses
Secret == "secret"
Guess == "guess"

\* hmac.New(sha256.New, key) over body, hex encoded: one digest per key and body
Hmac(key, body) == <<"hmac-sha256", key, body>>

\* request bodies, as JSON tokens
PushMain == <<"{", "ref", ":", "refs/heads/main", "}">>
PushFeature == <<"{", "ref", ":", "refs/heads/feature", "}">>
EmptyObject == <<"{", "}">>
NotJson == <<"ref", "=", "refs/heads/main">>

Bodies == {PushMain, PushFeature, EmptyObject, NotJson}

\* json.Unmarshal into a GitHubPushEvent: the error, and the ref member
ParsePush(body) ==
    IF body = <<"{", "}">>
    THEN [err |-> FALSE, Ref |-> ""]
    ELSE IF Len(body) = 5 /\ body[1] = "{" /\ body[3] = ":" /\ body[5] = "}"
         THEN [err |-> FALSE, Ref |-> IF body[2] = "ref" THEN body[4] ELSE ""]
         ELSE [err |-> TRUE, Ref |-> ""]

\* values of the X-Hub-Signature-256 header: absent, or a scheme prefix and a
\* hex digest
Signatures ==
    {<<>>}
        \cup {<<"sha256=", Hmac(Secret, b)>> : b \in Bodies}
        \cup {<<"sha256=", Hmac(Guess, b)>> : b \in Bodies}
        \cup {<<"sha1=", Hmac(Secret, b)>> : b \in Bodies}

\* an HTTP request as handleWebhook reads it
Requests ==
    [Method : {"POST", "GET"},
     ContentType : {"application/json", "text/plain"},
     BodyErr : BOOLEAN,
     Body : Bodies,
     Signature : Signatures,
     Event : {"push", "pull_request"}]

\* a delivery as GitHub sends it: signed with the shared secret
Delivery(body, event) ==
    [Method |-> "POST", ContentType |-> "application/json", BodyErr |-> FALSE,
     Body |-> body, Signature |-> <<"sha256=", Hmac(Secret, body)>>, Event |-> event]

\* the requests the server is sent: the deliveries, and the push to main with
\* one thing wrong
Sent ==
    {Delivery(b, ev) : b \in Bodies, ev \in {"push", "pull_request"}}
        \cup {[Delivery(PushMain, "push") EXCEPT !.Method = "GET"],
              [Delivery(PushMain, "push") EXCEPT !.ContentType = "text/plain"],
              [Delivery(PushMain, "push") EXCEPT !.BodyErr = TRUE]}
        \cup {[Delivery(PushMain, "push") EXCEPT !.Signature = sig] :
                 sig \in {<<>>, <<"sha256=", Hmac(Guess, PushMain)>>,
                          <<"sha256=", Hmac(Secret, PushFeature)>>,
                          <<"sha1=", Hmac(Secret, PushMain)>>}}

\* verifySignature that lets a request without the header through
verifySignature_EmptyOk(body, signature) ==
    IF signature = <<>>
    THEN TRUE
    ELSE IF signature[1] # "sha256="
         THEN FALSE
         ELSE signature[2] = Hmac(Secret, body)

\* Server.verifySignature
verifySignature(body, signature) ==
    IF signature = <<>>
    THEN FALSE
    ELSE IF signature[1] # "sha256="
         THEN FALSE
         ELSE signature[2] = Hmac(Secret, body)

\* Server.isEventTypeAllowed
isEventTypeAllowed(c, eventType) ==
    IF c.AllowedEventTypes = {} THEN TRUE ELSE eventType \in c.AllowedEventTypes

\* Server.isRefAllowed
isRefAllowed(c, ref) ==
    IF c.AllowedRefs = {} THEN TRUE ELSE ref \in c.AllowedRefs

Reply(status, text, trig) == [status |-> status, text |-> text, trigger |-> trig]

\* handleWebhook that parses the payload before it looks at the event type
Checks_ParseFirst(c, req) ==
    IF req.Method # "POST"
    THEN Reply(405, "Method not allowed", FALSE)
    ELSE IF req.ContentType # "application/json"
    THEN Reply(400, "Invalid content type", FALSE)
    ELSE IF req.BodyErr
    THEN Reply(500, "Failed to read body", FALSE)
    ELSE IF ~verifySignature(req.Body, req.Signature)
    THEN Reply(403, "Invalid signature", FALSE)
    ELSE IF ParsePush(req.Body).err
    THEN Reply(400, "Invalid payload", FALSE)
    ELSE IF ~isEventTypeAllowed(c, req.Event)
    THEN Reply(200, "Event type not configured for sync", FALSE)
    ELSE IF ~isRefAllowed(c, ParsePush(req.Body).Ref)
    THEN Reply(200, "Ref not configured for sync", FALSE)
    ELSE Reply(200, "Sync triggered", TRUE)

\* the checks of handleWebhook: the response, and whether trigger is called
Checks(c, req) ==
    IF req.Method # "POST"
    THEN Reply(405, "Method not allowed", FALSE)
    ELSE IF req.ContentType # "application/json"
    THEN Reply(400, "Invalid content type", FALSE)
    ELSE IF req.BodyErr
    THEN Reply(500, "Failed to read body", FALSE)
    ELSE IF ~verifySignature(req.Body, req.Signature)
    THEN Reply(403, "Invalid signature", FALSE)
    ELSE IF ~isEventTypeAllowed(c, req.Event)
    THEN Reply(200, "Event type not configured for sync", FALSE)
    ELSE IF ParsePush(req.Body).err
    THEN Reply(400, "Invalid payload", FALSE)
    ELSE IF ~isRefAllowed(c, ParsePush(req.Body).Ref)
    THEN Reply(200, "Ref not configured for sync", FALSE)
    ELSE Reply(200, "Sync triggered", TRUE)

Max(S) == CHOOSE x \in S : \A y \in S : y <= x

\* Timer.Stop of debouncer.timer
Stopped == IF dtimer = "running" THEN timers \ {Max(timers)} ELSE timers

\* debouncer.trigger that does not stop the timer it replaces
trigger_NoStop ==
    /\ mu = 0
    /\ dcallback' = nev + 1
    /\ timers' = timers \cup {Delay}
    /\ dtimer' = "running"
    /\ nev' = nev + 1
    /\ UNCHANGED <<mu, cb>>

\* debouncer.trigger: the whole call holds debouncer.mu
trigger ==
    /\ mu = 0
    /\ dcallback' = nev + 1
    /\ timers' = Stopped \cup {Delay}
    /\ dtimer' = "running"
    /\ nev' = nev + 1
    /\ UNCHANGED <<mu, cb>>

\* Server.handleWebhook: one request, from the checks to the response
handleWebhook(req) ==
    /\ Listening
    /\ IF Checks(cfg, req).trigger
       THEN /\ nev < MaxCallbacks
            /\ trigger
       ELSE UNCHANGED <<dcallback, dtimer, timers, nev, mu, cb>>
    /\ UNCHANGED listener
    /\ UNCHANGED <<cfg, ctx, repo, fs, stateFile, eng, gpc, syncRunning, syncPending, coalesced, burst, last>>

\* a delivery whose response nobody looks at
Deliver(req) ==
    /\ handleWebhook(req)
    /\ UNCHANGED response

\* a request of a client that reads the status line and the body of the
\* response
Exchange(req) ==
    /\ handleWebhook(req)
    /\ response' = [req |-> req, status |-> Checks(cfg, req).status, text |-> Checks(cfg, req).text]

\* one second passes for the running timers
Tick ==
    /\ \E r \in timers : r > 0
    /\ timers' = {IF r > 0 THEN r - 1 ELSE 0 : r \in timers}
    /\ UNCHANGED <<listener, dcallback, dtimer, nev, mu, cb>>
    /\ UNCHANGED <<cfg, ctx, response, repo, fs, stateFile, eng, gpc, syncRunning, syncPending, coalesced, burst, last>>

\* a timer whose time is up starts the goroutine of its function
TimerExpire(p) ==
    /\ 0 \in timers
    /\ gpc[p] = "idle"
    /\ \A q \in Callbacks : q < p => gpc[q] # "idle"
    /\ timers' = timers \ {0}
    /\ dtimer' = IF timers = {0} THEN "expired" ELSE dtimer
    /\ gpc' = [gpc EXCEPT ![p] = "fired"]
    /\ UNCHANGED <<listener, dcallback, nev, mu, cb>>
    /\ UNCHANGED <<cfg, ctx, response, repo, fs, stateFile, eng, syncRunning, syncPending, coalesced, burst, last>>

\* the function of time.AfterFunc: read the callback under the lock, call it
TimerRun(p) ==
    /\ gpc[p] = "fired"
    /\ gpc' = [gpc EXCEPT ![p] = IF dcallback # 0 THEN "enter" ELSE "returned"]
    /\ UNCHANGED hookVars
    /\ UNCHANGED <<cfg, ctx, response, repo, fs, stateFile, eng, syncRunning, syncPending, coalesced, burst, last>>

\* the configuration of the webhook guide, and one without filters
WebhookCfg ==
    [Prune |-> TRUE, Restart |-> "changed",
     AllowedEventTypes |-> {"push"}, AllowedRefs |-> {"refs/heads/main"}]

HookCfgs == {WebhookCfg, [WebhookCfg EXCEPT !.AllowedEventTypes = {}, !.AllowedRefs = {}]}

\* the commit the remote is at while the intake is studied
HookCommit == "r1"

HookInit ==
    /\ cfg \in HookCfgs
    /\ fs = EmptyMap
    /\ Fresh

\* a pass of the server against that remote
HookEngineStep(p) ==
    /\ EngineStep(p)
    /\ repo' \in {repo, CommitTree(HookCommit)}

\* the webhook server with its listener and debouncer
HookNext ==
    \/ Start
    \/ ListenAndServe
    \/ \E req \in Sent : Deliver(req)
    \/ Tick
    \/ \E p \in Callbacks : TimerExpire(p)
    \/ \E p \in Callbacks : TimerRun(p)
    \/ \E p \in Procs : PerformSyncEnter(p)
    \/ \E p \in Procs : PerformSyncNext(p)
    \/ \E p \in Procs : HookEngineStep(p)

HookSpec == HookInit /\ [][HookNext]_vars

\* the server of the webhook guide
ShutdownInit ==
    /\ cfg = WebhookCfg
    /\ fs = EmptyMap
    /\ Fresh

\* the webhook server under signals
ShutdownNext ==
    \/ Start
    \/ ListenAndServe
    \/ Cancel
    \/ Shutdown
    \/ \E req \in Sent : Deliver(req)
    \/ Tick
    \/ \E p \in Callbacks : TimerExpire(p)
    \/ \E p \in Callbacks : TimerRun(p)
    \/ \E p \in Procs : PerformSyncEnter(p)
    \/ \E p \in Procs : PerformSyncNext(p)
    \/ \E p \in Procs : HookEngineStep(p)

ShutdownSpec == ShutdownInit /\ [][ShutdownNext]_vars

\* a pass whose collaborators do not fail
CalmEngineStep(p) ==
    /\ HookEngineStep(p)
    /\ eng'[p].pc # "failed"

\* the webhook server while the file system, git and systemd are healthy
CalmNext ==
    \/ Start
    \/ ListenAndServe
    \/ \E req \in Sent : Deliver(req)
    \/ Tick
    \/ \E p \in Callbacks : TimerExpire(p)
    \/ \E p \in Callbacks : TimerRun(p)
    \/ \E p \in Procs : PerformSyncEnter(p)
    \/ \E p \in Procs : PerformSyncNext(p)
    \/ \E p \in Procs : CalmEngineStep(p)

\* time passes, a timer whose time is up fires, and its goroutine is scheduled
HookFairSpec ==
    /\ HookInit
    /\ [][CalmNext]_vars
    /\ WF_vars(Tick)
    /\ \A p \in Callbacks : WF_vars(TimerExpire(p))
    /\ \A p \in Callbacks : WF_vars(TimerRun(p))

\* a step of a goroutine that is inside performSync
GateStep ==
    \E p \in Procs : PerformSyncEnter(p) \/ PerformSyncNext(p) \/ HookEngineStep(p)

\* the gate of the webhook server against the remote at HookCommit
GateNext ==
    \/ Start
    \/ ListenAndServe
    \/ \E p \in Callbacks : TimerFire(p)
    \/ GateStep

\* the webhook server whose passes end: while a goroutine is inside
\* performSync, one of them goes on
GateFairSpec ==
    /\ ShutdownInit
    /\ [][GateNext]_vars
    /\ WF_vars(GateStep)

\* ------------------------------------------------------- the planner alone
\* a file an earlier commit had and no commit of the table has
OldVolume == << <<"old", ".", "volume">> >>

\* destinations a previous manifest can list
ManifestDests == {Join(QuadletDir, f) : f \in {WebContainer, AppEnv, OldVolume}}

\* the previous manifests: any of the destinations with either digest
PrevStates ==
    {[Commit |-> "r0",
      ManagedFiles |-> [d \in DOMAIN hs |->
                           [SourcePath |-> RelativePath(QuadletDir, d), Hash |-> hs[d]]]] :
        hs \in UNION {[K -> {"h1", "h2"}] : K \in SUBSET ManifestDests}}

\* Run about to load the manifest: any previous manifest, any checkout
PlanInit ==
    /\ cfg \in [Prune : BOOLEAN, Restart : RestartPolicies]
    /\ fs = EmptyMap
    /\ stateFile \in {NoStateFile, CorruptStateFile}
                        \cup {JsonStateFile(Marshal(st)) : st \in PrevStates}
    /\ gpc = [p \in Procs |-> "idle"]
    /\ syncRunning = FALSE
    /\ syncPending = FALSE
    /\ coalesced = 0
    /\ burst = 0
    /\ last = NoLast
    /\ NoHook
    /\ ctx = "live"
    /\ response = NoResponse
    /\ \E c \in Commits :
          /\ repo = CommitTree(c)
          /\ eng = [p \in Procs |->
                       IF p = 0
                       THEN [NewPass(FALSE) EXCEPT !.pc = "load", !.commit = c]
                       ELSE IdlePass]

PlanNext ==
    \/ RunLoadState(0)
    \/ RunBuildPlan(0)

PlanSpec == PlanInit /\ [][PlanNext]_vars

\* ------------------------------------- after a change of paths.quadlet_dir
\* the destination directory of the configuration the manifest was written
\* under
OldQuadletDir == << <<"etc">>, <<"containers">> >>

\* the manifest a pass at commit r1 saved under that configuration
MovedState ==
    [Commit |-> "r1",
     ManagedFiles |-> [d \in {Join(OldQuadletDir, WebContainer)} |->
                          [SourcePath |-> WebContainer, Hash |-> "h1"]]]

\* the oneshot command after paths.quadlet_dir was changed: the state
\* directory and the old destination directory are as that pass left them
MovedInit ==
    /\ cfg \in [Prune : BOOLEAN, Restart : RestartPolicies]
    /\ fs = [d \in {Join(OldQuadletDir, WebContainer)} |-> "c1"]
    /\ repo = CommitTree("r1")
    /\ stateFile = JsonStateFile(Marshal(MovedState))
    /\ eng = [p \in Procs |-> IdlePass]
    /\ gpc = [p \in Procs |-> "idle"]
    /\ syncRunning = FALSE
    /\ syncPending = FALSE
    /\ coalesced = 0
    /\ burst = 0
    /\ last = [ok |-> TRUE, commit |-> "r1", saved |-> Marshal(MovedState)]
    /\ NoHook
    /\ ctx = "live"
    /\ response = NoResponse

MovedSpec == MovedInit /\ [][Next]_vars

\* ------------------------------------------- any file names in the source
\* directories below the source root, two of them hidden
SourceDirs == { <<>>, << <<"sub">> >>, << <<".", "git">> >>, << <<"sub">>, <<".", "cache">> >> }

\* base names of quadlet files, one with a dot of its own
BaseNames == { <<"web">>, <<"my", ".", "app">> }

\* file names: every base name with every quadlet extension, two companion
\* files and two hidden files
SourceNames ==
    {b \o x : b \in BaseNames, x \in ValidExtensions}
        \cup { <<"app", ".", "env">>, <<"README">>, <<".", "hidden">>,
               <<".", "web", ".", "container">> }

\* paths relative to the source root
SourceFiles == {Join(d, <<n>>) : d \in SourceDirs, n \in SourceNames}

\* checkouts of one file, and of web.container next to one other file
SourceTrees ==
    {[p \in {Join(QuadletSourceDir, f) : f \in S} |-> "c1"] :
        S \in {{f} : f \in SourceFiles} \cup {{WebContainer, f} : f \in SourceFiles}}

\* Run about to load the manifest of a first pass over any of the checkouts
SourceInit ==
    /\ cfg \in [Prune : BOOLEAN, Restart : RestartPolicies]
    /\ fs = EmptyMap
    /\ stateFile = NoStateFile
    /\ repo \in SourceTrees
    /\ gpc = [p \in Procs |-> "idle"]
    /\ syncRunning = FALSE
    /\ syncPending = FALSE
    /\ coalesced = 0
    /\ burst = 0
    /\ last = NoLast
    /\ NoHook
    /\ ctx = "live"
    /\ response = NoResponse
    /\ eng = [p \in Procs |->
                 IF p = 0
                 THEN [NewPass(FALSE) EXCEPT !.pc = "load", !.commit = "r1"]
                 ELSE IdlePass]

\* the rest of Run after EnsureCheckout
SourceNext ==
    \/ RunLoadState(0)
    \/ RunBuildPlan(0)
    \/ RunIsAvailable(0)
    \/ ApplyMkdirAll(0)
    \/ ApplyOp(0)
    \/ RunValidateQuadlets(0)
    \/ RunSaveState(0)
    \/ RunDaemonReload(0)
    \/ RunHandleRestarts(0)

SourceSpec == SourceInit /\ [][SourceNext]_vars

\* ------------------------------------------------- copyFile step by step
\* filepath.Dir
Dir(path) == SubSeq(path, 1, Len(path) - 1)

\* the name os.CreateTemp makes of the pattern ".quadsyncd-tmp-*"
TmpName == <<".", "quadsyncd-tmp-", "0">>

\* the file of os.CreateTemp(filepath.Dir(dst), ".quadsyncd-tmp-*")
TmpPath(dst) == Join(Dir(dst), <<TmpName>>)

\* the positions of a pass inside copyFile
CopyPcs == {"cpCreate", "cpCopy", "cpChmod", "cpClose", "cpRename", "cpFail"}

\* the op applyPlan is at
CurrentOp(e) == ApplyOrder(e.plan)[e.idx + 1]

\* copyFile: os.MkdirAll of the parent directory and os.Open of the source
CopyOpen(p) ==
    /\ eng[p].pc = "apply"
    /\ eng[p].idx < Len(ApplyOrder(eng[p].plan))
    /\ CurrentOp(eng[p]).kind = "copy"
    /\ \/ /\ CurrentOp(eng[p]).op.SourcePath \in DOMAIN repo
          /\ Step(p, [eng[p] EXCEPT !.pc = "cpCreate"])
       \/ Step(p, Failed(eng[p], "apply"))
    /\ UNCHANGED <<repo, fs, stateFile>>

\* copyFile: os.CreateTemp in the directory of the destination
CopyCreateTemp(p) ==
    /\ eng[p].pc = "cpCreate"
    /\ LET tmpPath == TmpPath(CurrentOp(eng[p]).op.DestPath)
       IN  \/ /\ fs' = Put(fs, tmpPath, "")
              /\ Step(p, Called([eng[p] EXCEPT !.pc = "cpCopy"], Ev("tmp", tmpPath, {})))
           \/ /\ UNCHANGED fs
              /\ Step(p, Failed(eng[p], "apply"))
    /\ UNCHANGED <<repo, stateFile>>

\* copyFile: io.Copy into the temporary file, which a failure leaves empty or
\* partly written
CopyContent(p) ==
    /\ eng[p].pc = "cpCopy"
    /\ LET op == CurrentOp(eng[p]).op
       IN  \/ /\ fs' = Put(fs, TmpPath(op.DestPath), repo[op.SourcePath])
              /\ Step(p, [eng[p] EXCEPT !.pc = "cpChmod"])
           \/ /\ \E written \in {"", "partial"} : fs' = Put(fs, TmpPath(op.DestPath), written)
              /\ Step(p, [eng[p] EXCEPT !.pc = "cpFail"])
    /\ UNCHANGED <<repo, stateFile>>

\* copyFile: srcFile.Stat and tmpFile.Chmod
CopyChmod(p) ==
    /\ eng[p].pc = "cpChmod"
    /\ \E ok \in BOOLEAN : Step(p, [eng[p] EXCEPT !.pc = IF ok THEN "cpClose" ELSE "cpFail"])
    /\ UNCHANGED <<repo, fs, stateFile>>

\* copyFile: tmpFile.Close
CopyClose(p) ==
    /\ eng[p].pc = "cpClose"
    /\ \E ok \in BOOLEAN : Step(p, [eng[p] EXCEPT !.pc = IF ok THEN "cpRename" ELSE "cpFail"])
    /\ UNCHANGED <<repo, fs, stateFile>>

\* copyFile: os.Rename of the temporary file over the destination, after which
\* the deferred os.Remove finds nothing
CopyRename(p) ==
    /\ eng[p].pc = "cpRename"
    /\ LET e  == eng[p]
           op == CurrentOp(e).op
       IN  \/ /\ fs' = Put(Del(fs, TmpPath(op.DestPath)), op.DestPath, fs[TmpPath(op.DestPath)])
              /\ Step(p, AfterOp(Called([e EXCEPT !.pc = "apply", !.idx = e.idx + 1],
                                        Ev("write", op.DestPath, {}))))
           \/ /\ UNCHANGED fs
              /\ Step(p, [e EXCEPT !.pc = "cpFail"])
    /\ UNCHANGED <<repo, stateFile>>

\* copyFile that has no deferred os.Remove
CopyCleanup_KeepTemp(p) ==
    /\ eng[p].pc = "cpFail"
    /\ Step(p, Failed(eng[p], "apply"))
    /\ UNCHANGED <<repo, fs, stateFile>>

\* copyFile returning an error: the deferred os.Remove(tmpPath)
CopyCleanup(p) ==
    /\ eng[p].pc = "cpFail"
    /\ fs' = Del(fs, TmpPath(CurrentOp(eng[p]).op.DestPath))
    /\ Step(p, Failed(eng[p], "apply"))
    /\ UNCHANGED <<repo, stateFile>>

\* applyPlan: the next op of the delete loop
ApplyRemove(p) ==
    /\ eng[p].pc = "apply"
    /\ eng[p].idx < Len(ApplyOrder(eng[p].plan))
    /\ CurrentOp(eng[p]).kind = "remove"
    /\ LET e  == eng[p]
           op == CurrentOp(e).op
       IN  \/ /\ fs' = removeFile(fs, op.DestPath)
              /\ Step(p, AfterOp(Called([e EXCEPT !.idx = e.idx + 1], Ev("delete", op.DestPath, {}))))
           \/ /\ UNCHANGED fs
              /\ Step(p, Failed(e, "apply"))
    /\ UNCHANGED <<repo, stateFile>>

\* the oneshot command with every file operation of copyFile a step
CopyNext ==
    \/ \E dry \in BOOLEAN : SyncCmd(dry)
    \/ RunMkdirAll(0)
    \/ RunEnsureCheckout(0)
    \/ RunLoadState(0)
    \/ RunBuildPlan(0)
    \/ RunIsAvailable(0)
    \/ ApplyMkdirAll(0)
    \/ CopyOpen(0)
    \/ CopyCreateTemp(0)
    \/ CopyContent(0)
    \/ CopyChmod(0)
    \/ CopyClose(0)
    \/ CopyRename(0)
    \/ CopyCleanup(0)
    \/ ApplyRemove(0)
    \/ RunValidateQuadlets(0)
    \/ RunSaveState(0)
    \/ RunDaemonReload(0)
    \/ RunHandleRestarts(0)

CopySpec == Init /\ [][CopyNext]_vars

\* ------------------------------- manifests with source paths of either kind
\* the source_path of a manifest entry for destination d: relative to the
\* source root, as buildState records it, or relative to the repository, as
\* the field of ManagedFile is documented
SourcePathsOf(d) == {RelativePath(QuadletDir, d), Join(Subdir, RelativePath(QuadletDir, d))}

\* the manifests state.json can hold: any of the destinations, each with
\* either digest and either source path
ForeignStates ==
    {[Commit |-> "r0", ManagedFiles |-> m] :
        m \in UNION {{f \in [K -> [SourcePath : UNION {SourcePathsOf(d) : d \in K},
                                   Hash : {"h1", "h2"}]] :
                         \A d \in K : f[d].SourcePath \in SourcePathsOf(d)} :
                     K \in SUBSET ManifestDests}}

\* Run about to load such a manifest
ForeignInit ==
    /\ cfg \in [Prune : BOOLEAN, Restart : RestartPolicies]
    /\ fs = EmptyMap
    /\ stateFile \in {JsonStateFile(Marshal(st)) : st \in ForeignStates}
    /\ gpc = [p \in Procs |-> "idle"]
    /\ syncRunning = FALSE
    /\ syncPending = FALSE
    /\ coalesced = 0
    /\ burst = 0
    /\ last = NoLast
    /\ NoHook
    /\ ctx = "live"
    /\ response = NoResponse
    /\ \E c \in Commits :
          /\ repo = CommitTree(c)
          /\ eng = [p \in Procs |->
                       IF p = 0
                       THEN [NewPass(FALSE) EXCEPT !.pc = "load", !.commit = c]
                       ELSE IdlePass]

ForeignSpec == ForeignInit /\ [][PlanNext]_vars

\* ------------------------------------------------ the responses of the intake
\* the server listening after an initial pass that failed at its first step
IntakeInit ==
    /\ cfg \in HookCfgs
    /\ fs = EmptyMap
    /\ repo = EmptyMap
    /\ stateFile = NoStateFile
    /\ eng = [p \in Procs |-> IdlePass]
    /\ gpc = [p \in Procs |-> IF p = 0 THEN "returned" ELSE "idle"]
    /\ syncRunning = FALSE
    /\ syncPending = FALSE
    /\ coalesced = 0
    /\ burst = 0
    /\ last = NoLast
    /\ listener = "bound"
    /\ dcallback = 0
    /\ dtimer = "nil"
    /\ timers = {}
    /\ nev = 0
    /\ mu = 0
    /\ cb = [p \in 1..MaxCallbacks |-> 0]
    /\ ctx = "live"
    /\ response = NoResponse

\* any request, one after the other
IntakeNext == \E req \in Requests : Exchange(req)

IntakeSpec == IntakeInit /\ [][IntakeNext]_vars

\* ------------------------------------------- the debouncer, lock by lock
\* the function of time.AfterFunc: d.mu.Lock()
TimerLock(p) ==
    /\ gpc[p] = "fired"
    /\ mu = 0
    /\ mu' = p
    /\ gpc' = [gpc EXCEPT ![p] = "locked"]
    /\ UNCHANGED <<listener, dcallback, dtimer, timers, nev, cb>>
    /\ UNCHANGED <<cfg, ctx, response, repo, fs, stateFile, eng, syncRunning, syncPending, coalesced, burst, last>>

\* the function with the unlock deferred to its return
TimerUnlock_Deferred(p) ==
    /\ gpc[p] = "locked"
    /\ cb' = [cb EXCEPT ![p] = dcallback]
    /\ gpc' = [gpc EXCEPT ![p] = "read"]
    /\ UNCHANGED <<listener, dcallback, dtimer, timers, nev, mu>>
    /\ UNCHANGED <<cfg, ctx, response, repo, fs, stateFile, eng, syncRunning, syncPending, coalesced, burst, last>>

\* the function of time.AfterFunc: cb := d.callback; d.mu.Unlock()
TimerUnlock(p) ==
    /\ gpc[p] = "locked"
    /\ cb' = [cb EXCEPT ![p] = dcallback]
    /\ mu' = 0
    /\ gpc' = [gpc EXCEPT ![p] = "read"]
    /\ UNCHANGED <<listener, dcallback, dtimer, timers, nev>>
    /\ UNCHANGED <<cfg, ctx, response, repo, fs, stateFile, eng, syncRunning, syncPending, coalesced, burst, last>>

\* the function of time.AfterFunc: if cb != nil { cb() }, the callback of
\* handleWebhook being a call of performSync
TimerCall(p) ==
    /\ gpc[p] = "read"
    /\ gpc' = [gpc EXCEPT ![p] = IF cb[p] # 0 THEN "enter" ELSE "returned"]
    /\ UNCHANGED hookVars
    /\ UNCHANGED <<cfg, ctx, response, repo, fs, stateFile, eng, syncRunning, syncPending, coalesced, burst, last>>

\* the server of the webhook guide, listening after its initial pass
DebounceInit ==
    /\ IntakeInit
    /\ cfg = WebhookCfg

\* the deliveries of a push to main, which triggers, and of a push to a
\* feature branch, which does not
Pushes == {Delivery(PushMain, "push"), Delivery(PushFeature, "push")}

\* deliveries, the clock, and the goroutines of the timers
DebounceNext ==
    \/ \E req \in Pushes : Deliver(req)
    \/ Tick
    \/ \E p \in Callbacks : TimerExpire(p)
    \/ \E p \in Callbacks : TimerLock(p)
    \/ \E p \in Callbacks : TimerUnlock(p)
    \/ \E p \in Callbacks : TimerCall(p)
    \/ \E p \in Procs : PerformSyncEnter(p)
    \/ \E p \in Procs : PerformSyncNext(p)
    \/ \E p \in Procs : CalmEngineStep(p)

\* a step of the clock or of the goroutine of a timer
DebounceStep ==
    \/ Tick
    \/ \E p \in Callbacks : TimerExpire(p) \/ TimerLock(p) \/ TimerUnlock(p) \/ TimerCall(p)

\* time passes, a timer whose time is up fires, and its goroutine is
\* scheduled: while one of these can happen, one of them does
DebounceSpec ==
    /\ DebounceInit
    /\ [][DebounceNext]_vars
    /\ WF_vars(DebounceStep)

\* =================================================================== claims
\* goroutine p is inside Engine.Run
Executing(p) == eng[p].pc \notin ({"idle"} \cup Final)

\* C1: at most one engine pass is executing at any time, whatever the
\* interleaving of the performSync calls of Start and of the timer goroutines.
C1_AtMostOnePass == Cardinality({p \in Procs : Executing(p)}) <= 1

\* a pass is writing files while two later calls have come and gone
C1_Witness ==
    \E p \in Procs :
        /\ eng[p].pc = "apply"
        /\ eng[p].idx >= 1
        /\ Cardinality({q \in Callbacks : q # p /\ gpc[q] = "returned"}) >= 2

\* goroutine p leaves the critical section that follows engine.Run
Completes(p) ==
    /\ gpc[p] = "running"
    /\ eng[p].pc \in Final
    /\ (gpc'[p] # gpc[p] \/ eng'[p] # eng[p])

\* goroutine q leaves the critical section at the entry of performSync
Enters(q) == gpc[q] = "enter" /\ gpc'[q] # "enter"

\* C2: a call that arrives while a pass is in flight returns without running
\* a pass; when the pass completes, one re-run is started if at least one call
\* arrived during it (however many), and none otherwise; calls that arrive
\* during the re-run are counted afresh.
C2_OneRerunPerBurst ==
    [][ /\ \A q \in Procs :
              (Enters(q) /\ \E p \in Procs : p # q /\ gpc[p] = "running")
                  => /\ gpc'[q] = "returned"
                     /\ eng'[q] = IdlePass
                     /\ \A p \in Procs : eng'[p] = eng[p]
        /\ \A p \in Procs :
              Completes(p)
                  => IF coalesced >= 1
                     THEN /\ gpc'[p] = "running"
                          /\ eng'[p].pc = "mkdir"
                          /\ syncRunning'
                          /\ coalesced' = 0
                          /\ ~syncPending'
                     ELSE /\ gpc'[p] = "returned"
                          /\ \A q \in Procs : ~Executing(q)'
                          /\ ~syncRunning'
      ]_vars

\* the single re-run for a burst of two calls is executing
C2_Witness ==
    \E p \in Procs :
        /\ Executing(p)
        /\ burst = 2
        /\ coalesced = 0
        /\ ~syncPending

\* ------------------------------------------------------- the engine's pass
\* buildPlan has returned a plan to Run
Planned(e) ==
    \/ e.pc \in {"avail", "applymk", "apply", "validate", "save", "reload", "restart", "done"}
    \/ e.pc = "failed" /\ e.failedAt \notin {"mkdir", "fetch", "plan"}

\* the keys of the manifest a pass loads from a state file
ManifestKeys(file) == IF file.kind = "json" THEN {m[1] : m \in file.doc.managed_files} ELSE {}

Dests(ops) == {ops[i].DestPath : i \in 1..Len(ops)}

Calls(e, op) == {i \in 1..Len(e.trace) : e.trace[i].op = op}

IsFileEv(ev) == ev.op \in {"write", "delete"}

\* the writes and unlinks applyPlan has made, in order
FileEvents(e) == SelectSeq(e.trace, IsFileEv)

\* C3: the plan's deletes are exactly the keys of the loaded manifest that no
\* discovered source file maps to, and only when prune is set; no path
\* outside the loaded manifest is ever unlinked.
C3_DeleteOnlyManaged ==
    \A p \in Procs :
        LET e == eng[p]
            discovered == {DestOf(src) : src \in DiscoverAllFiles(QuadletSourceDir, repo)}
        IN  /\ Planned(e) =>
                /\ Dests(e.plan.Delete) =
                      IF cfg.Prune THEN ManifestKeys(e.sf0) \ discovered ELSE {}
                /\ Len(e.plan.Delete) = Cardinality(Dests(e.plan.Delete))
            /\ \A i \in Calls(e, "delete") : e.trace[i].path \in ManifestKeys(e.sf0)

\* a pruning pass has unlinked one managed file and kept another
C3_Witness ==
    \E p \in Procs :
        /\ eng[p].pc = "done"
        /\ Calls(eng[p], "delete") # {}
        /\ ManifestKeys(eng[p].sf0) \ Dests(eng[p].plan.Delete) # {}

\* C4 as stated: a file that is in the destination directory when the pass
\* starts and is not a key of the loaded manifest is neither overwritten nor
\* deleted by the pass.
C4_UnmanagedUntouched ==
    \A p \in Procs :
        \A d \in (DOMAIN eng[p].fs0) \ ManifestKeys(eng[p].sf0) :
            eng[p].pc # "idle" => d \in DOMAIN fs /\ fs[d] = eng[p].fs0[d]

\* C4 amended: such a file is never deleted, and it is replaced only by the
\* copy of a planned Add whose destination is that path.
C4_UnmanagedOnlyAdded ==
    \A p \in Procs :
        \A d \in (DOMAIN eng[p].fs0) \ ManifestKeys(eng[p].sf0) :
            eng[p].pc # "idle" =>
                /\ d \in DOMAIN fs
                /\ \/ fs[d] = eng[p].fs0[d]
                   \/ /\ Planned(eng[p])
                      /\ \E i \in 1..Len(eng[p].plan.Add) :
                            /\ eng[p].plan.Add[i].DestPath = d
                            /\ eng[p].plan.Add[i].Hash = fileHash(fs[d])
                      /\ \E i \in Calls(eng[p], "write") : eng[p].trace[i].path = d

\* a finished pass has replaced a file it did not manage and left another alone
C4_Witness ==
    \E p \in Procs :
        LET unmanaged == (DOMAIN eng[p].fs0) \ ManifestKeys(eng[p].sf0)
        IN  /\ eng[p].pc = "done"
            /\ \E d \in unmanaged : fs[d] # eng[p].fs0[d]
            /\ \E d \in unmanaged : fs[d] = eng[p].fs0[d] /\ d \notin Dests(eng[p].plan.Add)

\* C5: after a successful pass that was not a dry run, every key of the saved
\* manifest is a file on disk whose content has the recorded hash.
C5_ManifestMatchesDisk ==
    \A p \in Procs :
        (eng[p].pc = "done" /\ ~eng[p].dryRun) =>
            /\ stateFile.kind = "json"
            /\ \A m \in stateFile.doc.managed_files :
                  m[1] \in DOMAIN fs /\ fileHash(fs[m[1]]) = m[2].hash

\* C6: a dry-run pass that reaches planning succeeds, and a dry-run pass
\* changes no destination file, does not write the manifest and calls no
\* service-manager operation.
C6_DryRunNoEffect ==
    \A p \in Procs :
        LET e == eng[p]
        IN  (e.dryRun /\ e.pc # "idle") =>
                /\ fs = e.fs0
                /\ stateFile = e.sf0
                /\ \A i \in 1..Len(e.trace) : e.trace[i].op \in {"fetch", "load", "plan"}
                /\ Planned(e) => e.pc = "done"

\* a dry run has returned with adds and deletes planned over a managed tree
C6_Witness ==
    \E p \in Procs :
        /\ eng[p].dryRun
        /\ eng[p].pc = "done"
        /\ Len(eng[p].plan.Add) > 0
        /\ Len(eng[p].plan.Delete) > 0
        /\ fs # EmptyMap

\* C7: a pass that follows a successful non-dry-run pass and checks out the
\* same revision plans nothing, and the manifest it saves has the revision
\* and the managed files the first pass saved.
C7_SecondPassNoOp ==
    \A p \in Procs :
        LET e == eng[p]
        IN  (e.after.ok /\ Planned(e) /\ e.commit = e.after.commit) =>
                /\ e.plan = EmptyPlan
                /\ (e.pc \in {"reload", "restart", "done"} \/ e.failedAt = "reload") =>
                      /\ stateFile.kind = "json"
                      /\ Unmarshal(stateFile.doc) = Unmarshal(e.after.saved)

\* the second of two passes over the same revision has saved a manifest
\* that has entries
C7_Witness ==
    \E p \in Procs :
        /\ eng[p].after.ok
        /\ eng[p].commit = eng[p].after.commit
        /\ eng[p].pc = "done"
        /\ ~eng[p].dryRun
        /\ ManifestKeys(stateFile) # {}

Rank(op) ==
    CASE op = "fetch"    -> 1
      [] op = "load"     -> 2
      [] op = "plan"     -> 3
      [] op = "avail"    -> 4
      [] op = "write"    -> 5
      [] op = "delete"   -> 5
      [] op = "validate" -> 6
      [] op = "save"     -> 7
      [] op = "reload"   -> 8
      [] op = "restart"  -> 9

\* the steps no pass that gets further may skip
Mandatory == {Rank("fetch"), Rank("load"), Rank("plan"), Rank("avail"),
              Rank("validate"), Rank("save"), Rank("reload")}

\* C8: the steps of a non-dry-run pass occur in the order fetch, manifest
\* load, plan, availability check, file writes and deletes, validation,
\* manifest save, daemon-reload, try-restart, none being skipped before a
\* later one; every planned op is carried out before validation, and every
\* file the pass writes is on disk when daemon-reload is called.
C8_StepOrder ==
    \A p \in Procs :
        LET e == eng[p]
            t == e.trace
        IN  ~e.dryRun =>
                /\ \A i, j \in 1..Len(t) :
                      i < j => /\ Rank(t[i].op) <= Rank(t[j].op)
                               /\ Rank(t[i].op) = Rank(t[j].op) => IsFileEv(t[i])
                /\ \A j \in 1..Len(t) : \A r \in Mandatory :
                      r < Rank(t[j].op) => \E i \in 1..(j - 1) : Rank(t[i].op) = r
                /\ Calls(e, "validate") # {} =>
                      /\ \A d \in Dests(e.plan.Add \o e.plan.Update) :
                            \E i \in Calls(e, "write") : t[i].path = d
                      /\ \A d \in Dests(e.plan.Delete) :
                            \E i \in Calls(e, "delete") : t[i].path = d
                /\ Calls(e, "reload") # {} =>
                      \A i \in 1..Len(e.plan.Add \o e.plan.Update) :
                          LET op == (e.plan.Add \o e.plan.Update)[i]
                          IN  op.DestPath \in DOMAIN fs /\ fileHash(fs[op.DestPath]) = op.Hash

\* a pass has gone through every step: it wrote, deleted and restarted
C8_Witness ==
    \E p \in Procs :
        /\ eng[p].pc = "done"
        /\ Calls(eng[p], "write") # {}
        /\ Calls(eng[p], "delete") # {}
        /\ Calls(eng[p], "restart") # {}

\* what applyPlan does to the destination when it runs to the end
ExpectedFileEvents(plan) ==
    [i \in 1..Len(plan.Add) |-> Ev("write", plan.Add[i].DestPath, {})]
    \o [i \in 1..Len(plan.Update) |-> Ev("write", plan.Update[i].DestPath, {})]
    \o [i \in 1..Len(plan.Delete) |-> Ev("delete", plan.Delete[i].DestPath, {})]

\* C9: applyPlan carries out the adds, then the updates, then the deletes;
\* when an op fails the ops before it stay applied, the ops after it are not
\* executed, Run fails, the manifest is not saved and ValidateQuadlets,
\* DaemonReload and TryRestartUnits are not called.
C9_ApplyOrderAndAbort ==
    \A p \in Procs :
        LET e  == eng[p]
            fe == FileEvents(e)
            ex == ExpectedFileEvents(e.plan)
            ops == e.plan.Add \o e.plan.Update \o e.plan.Delete
        IN  /\ Len(fe) <= Len(ex)
            /\ fe = SubSeq(ex, 1, Len(fe))
            /\ e.failedAt = "apply" =>
                  /\ e.pc = "failed"
                  /\ Len(fe) < Len(ex) \/ Len(ex) = 0
                  /\ stateFile = e.sf0
                  /\ \A i \in 1..Len(e.trace) :
                        e.trace[i].op \notin {"validate", "save", "reload", "restart"}
                  /\ \A i \in 1..Len(fe) :
                        IF fe[i].op = "write"
                        THEN fe[i].path \in DOMAIN fs /\ fileHash(fs[fe[i].path]) = ops[i].Hash
                        ELSE fe[i].path \notin DOMAIN fs
                  /\ \A i \in (Len(fe) + 1)..Len(ex) :
                        LET d == ex[i].path
                        IN  /\ d \in DOMAIN fs <=> d \in DOMAIN e.fs0
                            /\ d \in DOMAIN fs => fs[d] = e.fs0[d]

\* applyPlan has stopped at a delete after its copy went through
C9_Witness ==
    \E p \in Procs :
        /\ eng[p].failedAt = "apply"
        /\ Len(FileEvents(eng[p])) >= 1
        /\ Len(FileEvents(eng[p])) < Len(ExpectedFileEvents(eng[p].plan))
        /\ Len(eng[p].plan.Delete) > 0

\* C10: when ValidateQuadlets fails, Run fails, the manifest file is as it
\* was before the pass, and DaemonReload and TryRestartUnits are not called.
C10_ValidateFailure ==
    \A p \in Procs :
        LET e == eng[p]
        IN  e.failedAt = "validate" =>
                /\ e.pc = "failed"
                /\ stateFile = e.sf0
                /\ \A i \in 1..Len(e.trace) : e.trace[i].op \notin {"save", "reload", "restart"}

\* validation has failed after the plan changed the files of an earlier manifest
C10_Witness ==
    \E p \in Procs :
        /\ eng[p].failedAt = "validate"
        /\ FileEvents(eng[p]) # <<>>
        /\ ManifestKeys(eng[p].sf0) # {}

\* ------------------------------------------------- failures late in the pass
\* C11: when writing the manifest fails, Run returns an error and neither
\* daemon-reload nor any unit restart is called.
C11_SaveFailure ==
    \A p \in Procs :
        eng[p].failedAt = "save"
            => /\ eng[p].pc = "failed"
               /\ Calls(eng[p], "save") # {}
               /\ Calls(eng[p], "reload") = {}
               /\ Calls(eng[p], "restart") = {}

\* the manifest write failed after a quadlet file with a unit was written
C11_Witness ==
    \E p \in Procs :
        /\ eng[p].failedAt = "save"
        /\ FileEvents(eng[p]) # <<>>
        /\ RestartUnits("changed", eng[p].plan, eng[p].newState) # {}

\* C12: when daemon-reload fails, Run returns an error, no unit is restarted,
\* and the manifest written earlier in the same pass stays on disk.
C12_ReloadFailure ==
    \A p \in Procs :
        LET e == eng[p]
        IN  e.failedAt = "reload"
                => /\ e.pc = "failed"
                   /\ Calls(e, "reload") # {}
                   /\ Calls(e, "restart") = {}
                   /\ e.newState = buildState(e.prevState, e.plan, e.commit)
                   /\ stateFile = JsonStateFile(Marshal(e.newState))

\* daemon-reload failed in a pass that rewrote the manifest and had units to
\* restart
C12_Witness ==
    \E p \in Procs :
        /\ eng[p].failedAt = "reload"
        /\ stateFile # eng[p].sf0
        /\ RestartUnits(cfg.Restart, eng[p].plan, eng[p].newState) # {}

EarlySteps == {"mkdir", "fetch", "plan", "avail"}

\* C14: a pass that fails at the creation of the state directory, at the
\* fetch, at discovery or hashing, or at the availability check has created,
\* modified and deleted no file of the destination directory, has left the
\* manifest file as it was, and has called none of ValidateQuadlets,
\* DaemonReload and TryRestartUnits.
C14_EarlyFailureNoEffect ==
    \A p \in Procs :
        LET e == eng[p]
        IN  e.failedAt \in EarlySteps
                => /\ e.pc = "failed"
                   /\ fs = e.fs0
                   /\ stateFile = e.sf0
                   /\ FileEvents(e) = <<>>
                   /\ \A op \in {"validate", "save", "reload", "restart"} : Calls(e, op) = {}

\* the service manager is unavailable in a pass whose plan has work to do on
\* a destination directory that holds files and has a manifest
C14_Witness ==
    \E p \in Procs :
        /\ eng[p].failedAt = "avail"
        /\ ApplyOrder(eng[p].plan) # <<>>
        /\ DOMAIN fs # {}
        /\ stateFile.kind = "json"

\* C15: a manifest file that exists but cannot be read or parsed does not fail
\* the pass: the pass goes on with an empty previous manifest, so its plan has
\* one Add for every discovered source file and no Update and no Delete.
C15_CorruptManifestFreshSync ==
    \A p \in Procs :
        LET e == eng[p]
            discovered == {DestOf(src) : src \in DiscoverAllFiles(QuadletSourceDir, repo)}
        IN  e.sf0.kind = "corrupt"
                => /\ e.failedAt # "load"
                   /\ Planned(e)
                        => /\ e.prevState = EmptyState
                           /\ Dests(e.plan.Add) = discovered
                           /\ Len(e.plan.Add) = Cardinality(discovered)
                           /\ e.plan.Update = <<>>
                           /\ e.plan.Delete = <<>>

\* a pass that found a corrupt manifest and files in the destination
\* directory has added both source files and succeeded
C15_Witness ==
    \E p \in Procs :
        /\ eng[p].sf0.kind = "corrupt"
        /\ eng[p].pc = "done"
        /\ Len(eng[p].plan.Add) = 2
        /\ DOMAIN eng[p].fs0 # {}
        /\ stateFile.kind = "json"

\* ---------------------------------------------------------------- the plan
\* the ops of a plan, the three lists one after the other
AllOps(plan) == plan.Add \o plan.Update \o plan.Delete

\* C20: whatever the previous manifest and the discovered source files, no
\* destination path is in more than one of the plan's Add, Update and Delete
\* lists, and none is twice in one list.
C20_PlanListsDisjoint ==
    \A p \in Procs :
        Planned(eng[p]) =>
            LET ops == AllOps(eng[p].plan)
            IN  \A i, j \in 1..Len(ops) : ops[i].DestPath = ops[j].DestPath => i = j

\* a plan with an add, an update and a delete over a previous manifest of two
\* files
C20_Witness ==
    \E p \in Procs :
        /\ Planned(eng[p])
        /\ eng[p].plan.Add # <<>>
        /\ eng[p].plan.Update # <<>>
        /\ eng[p].plan.Delete # <<>>
        /\ Cardinality(DOMAIN eng[p].prevState.ManagedFiles) = 2

\* ------------------------------------------------------- the webhook intake
\* the request meets the five conditions of C16
C16Valid(c, req) ==
    /\ req.Method = "POST"
    /\ req.ContentType = "application/json"
    /\ req.Signature = <<"sha256=", Hmac(Secret, req.Body)>>
    /\ (c.AllowedEventTypes # {} => req.Event \in c.AllowedEventTypes)
    /\ (c.AllowedRefs # {} => ParsePush(req.Body).Ref \in c.AllowedRefs)

\* C16: handleWebhook calls the debouncer only for a request that is a POST,
\* has content type application/json, carries the HMAC-SHA256 of its body
\* under the secret as X-Hub-Signature-256, and has an allowed event type and
\* an allowed ref; handling any other request leaves the debouncer and the
\* single-flight gate as they were, and the gate's flags change only in a step
\* of a goroutine that is inside performSync.
C16_OnlyValidRequestsSchedule ==
    [][ /\ (UNCHANGED <<eng, gpc>> /\ vars' # vars)
            => \A req \in Sent :
                  (handleWebhook(req) /\ ~C16Valid(cfg, req))
                      => UNCHANGED <<dcallback, dtimer, timers, nev, syncRunning, syncPending>>
        /\ (syncRunning' # syncRunning \/ syncPending' # syncPending)
            => \E p \in Procs :
                  /\ gpc[p] \in {"enter", "running"}
                  /\ (gpc'[p] # gpc[p] \/ eng'[p] # eng[p])
      ]_vars

\* a second delivery has armed the debounce timer while the pass of the first
\* is running
C16_Witness ==
    /\ cfg = WebhookCfg
    /\ nev = 2
    /\ timers = {Delay}
    /\ syncRunning

\* a timer goroutine is started by this step
Spawned(p) == gpc[p] = "idle" /\ gpc'[p] # "idle"

\* C17: an accepted event that arrives less than the debounce delay after the
\* previous one cancels the scheduled call and schedules one a full delay
\* later; the callback is invoked only by the timer of the last event, once
\* its delay has elapsed, and every scheduled call that is not cancelled is
\* made: once for a sequence of such events.
C17_DebounceOnce ==
    /\ [][ /\ (nev' # nev /\ dtimer = "running" /\ \E r \in timers : r > 0)
               => /\ timers' = {Delay}
                  /\ gpc' = gpc
           /\ \A p \in Callbacks :
                 Spawned(p)
                     => /\ timers = {0}
                        /\ dtimer = "running"
                        /\ timers' = {}
                        /\ dtimer' = "expired"
                        /\ gpc'[p] = "fired"
                        /\ \A q \in Callbacks \ {p} : gpc'[q] = gpc[q]
           /\ \A p \in Callbacks :
                 (gpc[p] = "fired" /\ gpc'[p] # "fired") => gpc'[p] = "enter"
         ]_vars
    /\ (timers # {}) ~> (timers = {})
    /\ \A p \in Callbacks : (gpc[p] = "fired") ~> (gpc[p] # "fired")

\* two events of one sequence have led to one invocation of the callback
C17_Witness ==
    /\ nev = 2
    /\ timers = {}
    /\ dtimer = "expired"
    /\ gpc[1] \notin {"idle", "fired"}
    /\ gpc[2] = "idle"

C19_NoListenerAfterFailedStart ==
    ((Listening \/ nev > 0) /\ \A p \in Callbacks : gpc[p] = "idle") => last.ok

\* ------------------------------------------------------------ the manifest
\* d is a path strictly below the configured destination directory
UnderQuadletDir(d) == IsPrefix(QuadletDir, d) /\ Len(d) > Len(QuadletDir)

\* C21 as stated: after every successful pass that is not a dry run, whatever
\* manifest it loaded, every key of the saved manifest is a path below the
\* configured destination directory.
C21_ManifestKeysUnderQuadletDir ==
    \A p \in Procs :
        (eng[p].pc = "done" /\ ~eng[p].dryRun)
            => \A d \in ManifestKeys(stateFile) : UnderQuadletDir(d)

\* ------------------------------------------------------------ the restarts
\* the passes that returned success and were not dry runs
Succeeded(e) == e.pc = "done" /\ ~e.dryRun

\* the unit names of the quadlet files among a set of destination paths
UnitsOf(dests) == {UnitNameFromQuadlet(d) : d \in {x \in dests : IsQuadletFile(x)}}

\* C22: under the policy changed, TryRestartUnits is passed exactly the unit
\* names of the quadlet files among the destinations of the plan's adds,
\* updates and deletes, each once; companion files contribute nothing, and
\* TryRestartUnits is not called when there is no such unit.
C22_ChangedRestartsPlanUnits ==
    \A p \in Procs :
        LET e == eng[p]
            touched == Dests(e.plan.Add) \cup Dests(e.plan.Update) \cup Dests(e.plan.Delete)
        IN  cfg.Restart = "changed"
                => /\ \A i \in Calls(e, "restart") :
                         /\ e.trace[i].units = UnitsOf(touched)
                         /\ e.trace[i].units # {}
                   /\ Succeeded(e)
                        => Cardinality(Calls(e, "restart"))
                              = IF UnitsOf(touched) = {} THEN 0 ELSE 1

\* the units of a plan that has a quadlet file and a companion file were
\* restarted
C22_Witness ==
    \E p \in Procs :
        /\ cfg.Restart = "changed"
        /\ Succeeded(eng[p])
        /\ Calls(eng[p], "restart") # {}
        /\ \E i \in 1..Len(ApplyOrder(eng[p].plan)) :
              ~IsQuadletFile(ApplyOrder(eng[p].plan)[i].op.DestPath)

\* C23: under the policy all-managed, TryRestartUnits is passed exactly the
\* unit names of the quadlet files among the keys of the manifest this pass
\* saved, each once: files the pass left unchanged are included, files it
\* deleted and companion files are not.
C23_AllManagedRestartsManifestUnits ==
    \A p \in Procs :
        LET e == eng[p]
            saved == ManifestKeys(JsonStateFile(Marshal(e.newState)))
        IN  cfg.Restart = "all-managed"
                => /\ \A i \in Calls(e, "restart") :
                         /\ stateFile = JsonStateFile(Marshal(e.newState))
                         /\ e.trace[i].units = UnitsOf(saved)
                         /\ e.trace[i].units # {}
                         /\ \A d \in Dests(e.plan.Delete) :
                               UnitNameFromQuadlet(d) \notin e.trace[i].units
                   /\ Succeeded(e)
                        => Cardinality(Calls(e, "restart"))
                              = IF UnitsOf(saved) = {} THEN 0 ELSE 1

\* the unit of a quadlet file was restarted by a pass that only updated a
\* companion file
C23_Witness ==
    \E p \in Procs :
        /\ cfg.Restart = "all-managed"
        /\ Succeeded(eng[p])
        /\ Calls(eng[p], "restart") # {}
        /\ eng[p].plan.Update # <<>>
        /\ UnitsOf(Dests(AllOps(eng[p].plan))) = {}

\* C24: a successful pass that is not a dry run calls DaemonReload exactly
\* once, with an empty plan too; it does not call TryRestartUnits under the
\* policy none, nor under the policy changed when no op of the plan is on a
\* quadlet file.
C24_ReloadOnceRestartByPolicy ==
    \A p \in Procs :
        LET e == eng[p]
        IN  Succeeded(e)
                => /\ Cardinality(Calls(e, "reload")) = 1
                   /\ cfg.Restart = "none" => Calls(e, "restart") = {}
                   /\ (cfg.Restart = "changed" /\ UnitsOf(Dests(AllOps(e.plan))) = {})
                        => Calls(e, "restart") = {}

\* a pass over an unchanged source has reloaded systemd and restarted nothing
C24_Witness ==
    \E p \in Procs :
        /\ Succeeded(eng[p])
        /\ cfg.Restart = "changed"
        /\ eng[p].plan = EmptyPlan
        /\ Calls(eng[p], "reload") # {}
        /\ Calls(eng[p], "restart") = {}
        /\ ManifestKeys(stateFile) # {}

\* the unit name the table gives for a quadlet file name b.<type>
UnitTable(name) ==
    LET b == SubSeq(name, 1, Len(name) - 2)
        t == name[Len(name)]
    IN  CASE t \in {"container", "kube", "pod"} -> b \o <<".", "service">>
          [] t = "volume"  -> b \o <<"-volume", ".", "service">>
          [] t = "network" -> b \o <<"-network", ".", "service">>
          [] t = "image"   -> b \o <<"-image", ".", "service">>
          [] t = "build"   -> b \o <<"-build", ".", "service">>

\* the names b.<type> of the seven quadlet types
HasQuadletType(name) ==
    /\ Len(name) > 2
    /\ name[Len(name) - 1] = "."
    /\ name[Len(name)] \in {"container", "volume", "network", "kube", "image", "build", "pod"}

\* C25: for every base name b and each of the seven quadlet extensions,
\* UnitNameFromQuadlet gives b.service for .container, .kube and .pod and
\* b-volume.service, b-network.service, b-image.service, b-build.service for
\* .volume, .network, .image and .build, whatever the directory of the path:
\* the units a first pass restarts are the table's names for the file names of
\* the quadlet files it planned.
C25_UnitNameTable ==
    /\ \A f \in SourceFiles :
          HasQuadletType(Base(f))
              => /\ UnitNameFromQuadlet(Join(QuadletSourceDir, f)) = UnitTable(Base(f))
                 /\ UnitNameFromQuadlet(DestOf(Join(QuadletSourceDir, f))) = UnitTable(Base(f))
    /\ LET e == eng[0]
       IN  \A i \in Calls(e, "restart") :
              e.trace[i].units
                 = {UnitTable(Base(d)) : d \in {x \in Dests(e.plan.Add) : HasQuadletType(Base(x))}}

\* the unit of a pod file in a subdirectory, with a dot in its base name, was
\* restarted
C25_Witness ==
    /\ Succeeded(eng[0])
    /\ \E i \in Calls(eng[0], "restart") :
          eng[0].trace[i].units = { <<"my", ".", "app", ".", "service">> }
    /\ Dests(eng[0].plan.Add) = { Join(QuadletDir, << <<"sub">>, <<"my", ".", "app", ".", "pod">> >>) }

\* a path below the source root with a component whose name begins with "."
HiddenSource(path) ==
    /\ IsPrefix(QuadletSourceDir, path)
    /\ \E i \in (Len(QuadletSourceDir) + 1)..Len(path) : path[i][1] = "."

\* C26: no file whose name begins with "." and no file below a directory
\* whose name begins with "." is returned by discovery, and none is the source
\* of an operation of the plan of any pass.
C26_HiddenNeverPlanned ==
    /\ \A s \in DiscoverAllFiles(QuadletSourceDir, repo) : ~HiddenSource(s)
    /\ \A p \in Procs :
          \A i \in 1..Len(AllOps(eng[p].plan)) : ~HiddenSource(AllOps(eng[p].plan)[i].SourcePath)

\* a pass planned web.container alone from a checkout that also has a quadlet
\* file below .git
C26_Witness ==
    /\ Join(QuadletSourceDir, << <<".", "git">>, <<"web", ".", "container">> >>) \in DOMAIN repo
    /\ Succeeded(eng[0])
    /\ Dests(eng[0].plan.Add) = {Join(QuadletDir, WebContainer)}

\* the calls Run makes on its collaborators, the git client and the systemd
\* client
CollaboratorOps == {"fetch", "avail", "validate", "reload", "restart"}

\* the pass of the main goroutine makes a call on a collaborator in this step
CallsCollaborator ==
    /\ Len(eng'[0].trace) = Len(eng[0].trace) + 1
    /\ eng'[0].trace[Len(eng'[0].trace)].op \in CollaboratorOps

\* C27: once the context given to Run is cancelled during a pass, the pass
\* does not write the manifest file, the next call it makes on a collaborator
\* ends it, and Run returns an error.
C27_CancelledPassAborts ==
    [][ (ctx = "cancelled" /\ Executing(0))
            => /\ stateFile' = stateFile
               /\ CallsCollaborator => eng'[0].pc = "failed" ]_vars

\* the performSync loop of goroutine p goes round: the re-run is started
Reruns(p) == gpc[p] = "running" /\ eng[p].pc \in Final /\ eng'[p].pc = "mkdir"

\* C28: once the root context of the server is cancelled, a re-run queued in
\* the single-flight gate is discarded: no performSync loop starts another
\* engine pass.
C28_NoRerunAfterShutdown ==
    [][ ctx = "cancelled" => \A p \in Procs : ~Reruns(p) ]_vars

\* C29: saving the manifest goes through a temporary file and an atomic
\* rename: whatever a step does, failed saves included, state.json afterwards
\* holds the complete manifest it held before or the complete new manifest of
\* the pass.
C29_SaveOldOrNew ==
    [][ stateFile' \in {stateFile}
                          \cup {JsonStateFile(Marshal(eng'[p].newState)) : p \in Procs} ]_vars

\* goroutine p has created the temporary file of the copy it is in
HoldsTemp(p) == eng[p].pc \in CopyPcs \ {"cpCreate"}

\* what a reader of a path sees: its content, or that there is no such file
Seen(files, path) == IF path \in DOMAIN files THEN <<files[path]>> ELSE <<>>

OpsOn(ops, d) == {i \in 1..Len(ops) : ops[i].DestPath = d}

\* the visible files of the checkout below the source root
Discovered == {s \in DOMAIN repo : IsPrefix(QuadletSourceDir, s) /\ ~HiddenSource(s)}

\* C31: for each discovered source file, with d the destination directory
\* joined with its path relative to the source root and h its content hash,
\* buildPlan emits Add(d) iff the previous manifest has no entry for d,
\* Update(d) iff it has an entry with another hash, and nothing iff the entry
\* has hash h; every op emitted carries the source file and h.
C31_AddUpdateUnchanged ==
    \A p \in Procs :
        Planned(eng[p]) =>
            \A s \in Discovered :
                LET d    == QuadletDir \o SubSeq(s, Len(QuadletSourceDir) + 1, Len(s))
                    h    == fileHash(repo[s])
                    prev == eng[p].prevState.ManagedFiles
                    plan == eng[p].plan
                IN  /\ OpsOn(plan.Add, d) # {} <=> d \notin DOMAIN prev
                    /\ OpsOn(plan.Update, d) # {} <=> (d \in DOMAIN prev /\ prev[d].Hash # h)
                    /\ OpsOn(plan.Add \o plan.Update, d) = {}
                          <=> (d \in DOMAIN prev /\ prev[d].Hash = h)
                    /\ \A i \in OpsOn(plan.Add \o plan.Update, d) :
                          (plan.Add \o plan.Update)[i] = FileOp(s, d, h)

\* a plan over a checkout of two files, one in a subdirectory: one is updated,
\* the other is recorded with its hash and gets no op
C31_Witness ==
    \E p \in Procs :
        /\ Planned(eng[p])
        /\ Cardinality(Discovered) = 2
        /\ Len(eng[p].plan.Update) = 1
        /\ eng[p].plan.Add = <<>>
        /\ Join(QuadletDir, AppEnv) \in DOMAIN eng[p].prevState.ManagedFiles
        /\ OpsOn(eng[p].plan.Update, Join(QuadletDir, AppEnv)) = {}

\* C32: a discovered source file whose hash equals that of the previous
\* manifest entry for its destination, while the entry's source_path is not
\* the file's path relative to the source root, is classified as Update.
C32_MovedSourceIsUpdate ==
    \A p \in Procs :
        Planned(eng[p]) =>
            \A s \in Discovered :
                LET rel  == SubSeq(s, Len(QuadletSourceDir) + 1, Len(s))
                    d    == QuadletDir \o rel
                    prev == eng[p].prevState.ManagedFiles
                IN  (d \in DOMAIN prev /\ prev[d].Hash = fileHash(repo[s])
                        /\ prev[d].SourcePath # rel)
                        => OpsOn(eng[p].plan.Update, d) # {}

\* C33: buildPlan returns an error whenever an add, update or delete it would
\* emit has a destination outside the configured destination directory, a
\* delete for a key of the loaded manifest included: no pass has a plan with
\* such an op, and no step of a pass changes a file outside that directory.
C33_PathEscapeIsError ==
    /\ [](\A p \in Procs :
             \A i \in 1..Len(AllOps(eng[p].plan)) :
                 UnderQuadletDir(AllOps(eng[p].plan)[i].DestPath))
    /\ [][ \A d \in DOMAIN fs : ~UnderQuadletDir(d) => Seen(fs', d) = Seen(fs, d) ]_vars

\* C34: the manifest buildState produces has the previous manifest's entries
\* minus every Delete target, with every Add and Update destination set to the
\* op's source path relative to the source root and the op's hash; entries the
\* plan does not touch are carried over unchanged, and the revision is the
\* commit this pass's EnsureCheckout returned.
C34_NewManifest ==
    \A p \in Procs :
        LET e    == eng[p]
            prev == e.prevState.ManagedFiles
            ups  == e.plan.Add \o e.plan.Update
            new  == e.newState.ManagedFiles
        IN  Calls(e, "save") # {}
                => /\ DOMAIN new = ((DOMAIN prev) \ Dests(e.plan.Delete)) \cup Dests(ups)
                   /\ \A i \in 1..Len(ups) :
                         new[ups[i].DestPath]
                            = [SourcePath |-> SubSeq(ups[i].SourcePath, Len(QuadletSourceDir) + 1,
                                                     Len(ups[i].SourcePath)),
                               Hash |-> ups[i].Hash]
                   /\ \A d \in (DOMAIN new) \ Dests(ups) : new[d] = prev[d]
                   /\ e.newState.Commit = e.commit
                   /\ Calls(e, "fetch") # {}
                   /\ repo = CommitTree(e.newState.Commit)

\* a pass saved a manifest with an entry it updated and an entry it carried
\* over from the previous manifest
C34_Witness ==
    \E p \in Procs :
        /\ Succeeded(eng[p])
        /\ eng[p].plan.Update # <<>>
        /\ \E d \in DOMAIN eng[p].newState.ManagedFiles :
              /\ d \notin Dests(AllOps(eng[p].plan))
              /\ d \in DOMAIN eng[p].prevState.ManagedFiles
        /\ eng[p].newState.Commit # eng[p].prevState.Commit

\* the checks in the order of the claim, each with whether the request passes
\* it and the status and body a failure is answered with
CheckList(c, req) ==
    << [ok |-> req.Method = "POST", status |-> 405, text |-> "Method not allowed"],
       [ok |-> req.ContentType = "application/json", status |-> 400, text |-> "Invalid content type"],
       [ok |-> ~req.BodyErr, status |-> 500, text |-> "Failed to read body"],
       [ok |-> req.Signature = <<"sha256=", Hmac(Secret, req.Body)>>,
        status |-> 403, text |-> "Invalid signature"],
       [ok |-> c.AllowedEventTypes = {} \/ req.Event \in c.AllowedEventTypes,
        status |-> 200, text |-> "Event type not configured for sync"],
       [ok |-> req.Body # NotJson, status |-> 400, text |-> "Invalid payload"],
       [ok |-> c.AllowedRefs = {}
                  \/ (req.Body = PushMain /\ "refs/heads/main" \in c.AllowedRefs)
                  \/ (req.Body = PushFeature /\ "refs/heads/feature" \in c.AllowedRefs),
        status |-> 200, text |-> "Ref not configured for sync"] >>

\* the checks the request fails
FailedChecks(c, req) == {i \in 1..Len(CheckList(c, req)) : ~CheckList(c, req)[i].ok}

\* C35: handleWebhook answers with the status of the first check that fails,
\* in the order method (405), content type (400), body read (500), signature
\* (403), event type (200, informational), JSON parse (400), ref (200,
\* informational), and with 200 Sync triggered when none fails.
C35_FirstFailingCheck ==
    response # NoResponse
        => LET failed == FailedChecks(cfg, response.req)
           IN  IF failed = {}
               THEN response.status = 200 /\ response.text = "Sync triggered"
               ELSE LET first == CHOOSE i \in failed : \A j \in failed : i <= j
                    IN  /\ response.status = CheckList(cfg, response.req)[first].status
                        /\ response.text = CheckList(cfg, response.req)[first].text

\* a signed pull_request delivery whose body is not JSON was answered 200: the
\* event type is checked before the payload is parsed
C35_Witness ==
    /\ cfg = WebhookCfg
    /\ response.req = Delivery(NotJson, "pull_request")
    /\ response.status = 200
    /\ response.text = "Event type not configured for sync"

\* ---------------------------------------------------- the pass after a failure
\* the lists of two plans hold the same ops (each list in any order)
SamePlan(a, b) ==
    /\ {a.Add[i] : i \in 1..Len(a.Add)} = {b.Add[i] : i \in 1..Len(b.Add)}
    /\ {a.Update[i] : i \in 1..Len(a.Update)} = {b.Update[i] : i \in 1..Len(b.Update)}
    /\ {a.Delete[i] : i \in 1..Len(a.Delete)} = {b.Delete[i] : i \in 1..Len(b.Delete)}

\* C36: when a pass has applied its plan and saved the manifest and then
\* failed at daemon-reload, the next pass, checking out the same revision,
\* computes an empty plan and, run to its end, issues daemon-reload.
C36_ReloadRetried ==
    LET e == eng[0]
    IN  (e.prior.failedAt = "reload" /\ Planned(e) /\ e.commit = e.prior.commit)
            => /\ e.plan = EmptyPlan
               /\ Succeeded(e) => Cardinality(Calls(e, "reload")) = 1

\* daemon-reload was issued by the pass after one whose daemon-reload failed
\* once it had written files and the manifest
C36_Witness ==
    /\ eng[0].prior.failedAt = "reload"
    /\ eng[0].prior.plan # EmptyPlan
    /\ eng[0].commit = eng[0].prior.commit
    /\ Succeeded(eng[0])
    /\ Calls(eng[0], "reload") # {}

\* C37: when a pass has failed during apply or validation, so that the
\* manifest was not updated, the next pass over the same revision computes the
\* plan the failed pass computed and, when it succeeds, leaves every discovered
\* source file at its destination with the same content and in the manifest
\* with its hash.
C37_RetryConverges ==
    LET e == eng[0]
    IN  (e.prior.failedAt \in {"apply", "validate"} /\ Planned(e) /\ e.commit = e.prior.commit)
            => /\ SamePlan(e.plan, e.prior.plan)
               /\ Succeeded(e)
                    => \A s \in Discovered :
                          LET d == QuadletDir \o SubSeq(s, Len(QuadletSourceDir) + 1, Len(s))
                          IN  /\ Seen(fs, d) = <<repo[s]>>
                              /\ d \in DOMAIN e.newState.ManagedFiles
                              /\ e.newState.ManagedFiles[d].Hash = fileHash(repo[s])
                              /\ stateFile = JsonStateFile(Marshal(e.newState))

\* C39: in every reachable state of the single-flight gate a queued re-run
\* (syncPending) implies a pass in progress (syncRunning).
C39_PendingImpliesRunning == syncPending => syncRunning

\* a call was coalesced while a pass was running, and that pass has ended
\* without the gate having been consulted yet
C39_Witness ==
    /\ syncPending
    /\ \E p \in Procs : gpc[p] = "running" /\ eng[p].pc \in Final

\* a call of performSync that has not returned
InCall(p) == gpc[p] \in {"enter", "running"}

\* C38: with finitely many calls of performSync and passes that end, every
\* call of performSync returns; whenever no call is executing, syncRunning and
\* syncPending are both false; and the critical section after a pass releases
\* the gate or loops by syncPending alone, whether the pass succeeded or failed.
C38_GateReleased ==
    /\ \A p \in Procs : InCall(p) ~> (gpc[p] = "returned")
    /\ []((\A p \in Procs : ~InCall(p)) => (~syncRunning /\ ~syncPending))
    /\ [][\A p \in Procs :
            (gpc[p] = "running" /\ eng[p].pc \in Final /\ <<gpc[p], eng[p]>>' # <<gpc[p], eng[p]>>)
                => IF syncPending
                   THEN syncRunning' /\ ~syncPending' /\ gpc'[p] = "running" /\ eng'[p].pc = "mkdir"
                   ELSE ~syncRunning' /\ ~syncPending' /\ gpc'[p] = "returned"]_vars

\* the initial call and a triggered call have returned, no call is executing,
\* and no pass ever got as far as writing the manifest: every pass failed
C38_Witness ==
    /\ gpc[0] = "returned"
    /\ gpc[1] = "returned"
    /\ \A p \in Procs : ~InCall(p)
    /\ stateFile = NoStateFile
    /\ ~syncRunning
    /\ ~syncPending

\* goroutine p has called the callback it read
Invoked(p) == cb[p] # 0 /\ gpc[p] \in {"enter", "running", "returned"}

\* C40: under every interleaving of trigger calls and timer expirations the
\* callback invocations never outnumber the trigger calls; after the last
\* trigger call some goroutine invokes the callback that call supplied; and
\* no goroutine holds debouncer.mu while the callback it invoked runs.
C40_Debounce ==
    /\ [](Cardinality({p \in Callbacks : Invoked(p)}) <= nev)
    /\ <>[](nev = 0 \/ \E p \in Callbacks : Invoked(p) /\ cb[p] = nev)
    /\ [](\A p \in Callbacks : gpc[p] \in {"enter", "running"} => mu # p)

\* a trigger call came between the expiry of a timer and its goroutine's
\* lock: that goroutine and the goroutine of the new timer have both invoked
\* the callback of the later call
C40_Witness ==
    \E p, q \in Callbacks :
        /\ p # q
        /\ Invoked(p)
        /\ Invoked(q)
        /\ cb[p] = cb[q]
        /\ cb[p] = nev

====
